---- MODULE Spec2Model ----
(***************************************************************************)
(* A model of RealtyBot's property data acquisition and caching layer:     *)
(*   - RaileyScraper   (railey-scraper.ts, src/unnamed/part_002:1-335)      *)
(*   - OpenAIScraper   (openai-scraper.ts, src/unnamed/part_002:337-528)    *)
(*   - MemStorage      (src/server/storage.ts:22-145)                       *)
(* The three exported singletons (raileyScraper, openaiScraper, storage)    *)
(* are the components; an action is one call of a public method, split at  *)
(* the awaits where the JavaScript event loop can run another request.     *)
(* Time is Date.now() in milliseconds.                                     *)
(*                                                                         *)
(* The extraction step of fetchListings (part_002:34-49: the fetch of the  *)
(* listings page and its parse, whose result is bound to `properties`) is  *)
(* an input of the call: it throws, or yields an empty or a non-empty list.*)
(* In this snapshot of the source the statement at line 49 binds the empty *)
(* list; the branches that follow it (lines 51-71) are modelled for every  *)
(* outcome the step has.                                                   *)
(*                                                                         *)
(* The private helpers of the two scrapers (parseListingsFromHtml,         *)
(* extractFeatures, generateTitle, extractPropertiesWithOpenAI, ...) are   *)
(* operators; SpecFn applies each of them to inputs drawn from small sets. *)
(* A listings page is a sequence of segments: a segment is text in which   *)
(* listingPattern (part_002:78-79) has one match, or text in which it has  *)
(* none.  Strings are ASCII; EnDash stands for the character U+2013.       *)
(*                                                                         *)
(* SpecChat is the POST /api/chat handler (src/server/routes.ts:86-132)    *)
(* over MemStorage's chat sessions (src/server/storage.ts:115-142): one    *)
(* action per stretch of the handler between two awaits.                   *)
(***************************************************************************)
EXTENDS Integers, Sequences, FiniteSets, TLC

\* ---------------------------------------------------------------- bounds
\* Number of clock ticks the model lets pass.
MaxTicks == 2
\* Number of state-changing calls made by the environment (the
\* constructor's initializeRaileyData() comes on top).
MaxCalls == 2
\* Number of POST /api/chat requests.
MaxRequests == 2

\* One clock tick: 15 minutes in milliseconds.
TickMs == 15 * 60 * 1000
\* Date.now() when the process starts.
StartTime == TickMs
\* ------------------------------------------------------------- helpers
Min(a, b) == IF a < b THEN a ELSE b

\* Array.prototype.slice(0, n)
slice(s, n) == SubSeq(s, 1, Min(n, Len(s)))

\* String.prototype.includes
includes(hay, needle) ==
    \E i \in 1..(Len(hay) - Len(needle) + 1) :
        SubSeq(hay, i, i + Len(needle) - 1) = needle

\* String.prototype.toLowerCase, for the ASCII letters.
UpperToLower ==
    [c \in {"A", "B", "C", "D", "E", "F", "G", "H", "I", "J", "K", "L", "M",
            "N", "O", "P", "Q", "R", "S", "T", "U", "V", "W", "X", "Y", "Z"} |->
        CASE c = "A" -> "a" [] c = "B" -> "b" [] c = "C" -> "c" [] c = "D" -> "d"
          [] c = "E" -> "e" [] c = "F" -> "f" [] c = "G" -> "g" [] c = "H" -> "h"
          [] c = "I" -> "i" [] c = "J" -> "j" [] c = "K" -> "k" [] c = "L" -> "l"
          [] c = "M" -> "m" [] c = "N" -> "n" [] c = "O" -> "o" [] c = "P" -> "p"
          [] c = "Q" -> "q" [] c = "R" -> "r" [] c = "S" -> "s" [] c = "T" -> "t"
          [] c = "U" -> "u" [] c = "V" -> "v" [] c = "W" -> "w" [] c = "X" -> "x"
          [] c = "Y" -> "y" [] c = "Z" -> "z"]

RECURSIVE toLowerCase(_)
toLowerCase(s) ==
    IF Len(s) = 0 THEN ""
    ELSE IF Len(s) = 1
    THEN (IF s \in DOMAIN UpperToLower THEN UpperToLower[s] ELSE s)
    ELSE LET h == Len(s) \div 2
         IN toLowerCase(SubSeq(s, 1, h)) \o toLowerCase(SubSeq(s, h + 1, Len(s)))

\* The null of a nullable text column (Property.description).
Null == "<null>"

\* ------------------------------------------------- RaileyScraper: data
\* A cache timeout written without the minutes factor.
cacheTimeoutSeconds == 30 * 1000

\* private cacheTimeout = 30 * 60 * 1000
cacheTimeout == 30 * 60 * 1000

\* RaileyScraper.getSampleData()
getSampleData ==
    << [ id |-> "sample-1",
         title |-> "Lakefront Mountain Retreat",
         address |-> "123 Deep Creek Lake Dr, McHenry, MD 21541",
         price |-> 525000, bedrooms |-> 3, bathrooms |-> "2.5", sqft |-> 2100,
         imageUrl |-> "https://images.unsplash.com/photo-1564013799919-ab600027ffc6?ixlib=rb-4.0.3&auto=format&fit=crop&w=400&h=300",
         description |-> "Stunning lakefront property with private dock access and panoramic mountain views. Perfect for year-round living or vacation rental.",
         features |-> <<"Lakefront", "Private Dock", "Mountain Views", "Fireplace">>,
         daysOnMarket |-> 15, mlsNumber |-> "SAMPLE001" ],
       [ id |-> "sample-2",
         title |-> "Ski-In/Ski-Out Condo",
         address |-> "456 Wisp Resort Rd, McHenry, MD 21541",
         price |-> 285000, bedrooms |-> 2, bathrooms |-> "2", sqft |-> 1200,
         imageUrl |-> "https://images.unsplash.com/photo-1545324418-cc1a3fa10c00?ixlib=rb-4.0.3&auto=format&fit=crop&w=400&h=300",
         description |-> "Modern condo with direct ski slope access at Wisp Resort. Fully furnished and ready for mountain adventures.",
         features |-> <<"Ski Access", "Resort Amenities", "Furnished", "Mountain Views">>,
         daysOnMarket |-> 8, mlsNumber |-> "SAMPLE002" ],
       [ id |-> "sample-3",
         title |-> "Mountain View Family Home",
         address |-> "789 Garrett Heights Way, Oakland, MD 21550",
         price |-> 375000, bedrooms |-> 4, bathrooms |-> "3", sqft |-> 2800,
         imageUrl |-> "https://images.unsplash.com/photo-1570129477492-45c003edd2be?ixlib=rb-4.0.3&auto=format&fit=crop&w=400&h=300",
         description |-> "Spacious family home with breathtaking mountain views and large yard. Great for full-time residence in beautiful Garrett County.",
         features |-> <<"Mountain Views", "Large Yard", "Family Friendly", "Updated Kitchen">>,
         daysOnMarket |-> 22, mlsNumber |-> "SAMPLE003" ],
       [ id |-> "sample-4",
         title |-> "Lake Access Cabin",
         address |-> "321 Lakeshore Trail, Swanton, MD 21561",
         price |-> 195000, bedrooms |-> 2, bathrooms |-> "1", sqft |-> 1000,
         imageUrl |-> "https://images.unsplash.com/photo-1518780664697-55e3ad937233?ixlib=rb-4.0.3&auto=format&fit=crop&w=400&h=300",
         description |-> "Cozy cabin with lake access and hiking trails nearby. Perfect weekend getaway in the heart of nature.",
         features |-> <<"Lake Access", "Hiking Trails", "Cozy Cabin", "Natural Setting">>,
         daysOnMarket |-> 5, mlsNumber |-> "SAMPLE004" ],
       [ id |-> "sample-5",
         title |-> "Luxury Mountain Estate",
         address |-> "654 Summit Ridge Dr, Terra Alta, WV 26764",
         price |-> 750000, bedrooms |-> 5, bathrooms |-> "4.5", sqft |-> 4200,
         imageUrl |-> "https://images.unsplash.com/photo-1512917774080-9991f1c4c750?ixlib=rb-4.0.3&auto=format&fit=crop&w=400&h=300",
         description |-> "Impressive luxury estate with premium finishes, multiple fireplaces, and expansive mountain views from every room.",
         features |-> <<"Luxury Estate", "Premium Finishes", "Multiple Fireplaces", "Panoramic Views">>,
         daysOnMarket |-> 45, mlsNumber |-> "SAMPLE005" ] >>

\* Two listings as the pattern-rule parse emits them (parseListingsFromHtml,
\* lines 86-123: id is the MLS number, the image is the placeholder).
ParsedA ==
    [ id |-> "1001",
      title |-> "Lake Access Home - 12 Lake Shore Dr",
      address |-> "12 Lake Shore Dr, Oakland, MD 21550",
      price |-> 450000, bedrooms |-> 3, bathrooms |-> "2", sqft |-> 1800,
      imageUrl |-> "https://images.unsplash.com/photo-1570129477492-45c003edd2be?ixlib=rb-4.0.3&auto=format&fit=crop&w=400&h=300",
      description |-> "Beautiful premium home in the Maryland mountain area of Garrett County. This property offers lake access, mountain views and is perfect for year-round living or as a vacation retreat in Deep Creek Lake area.",
      features |-> <<"Lake Access", "Mountain Views">>,
      daysOnMarket |-> 0, mlsNumber |-> "1001" ]

ParsedB ==
    [ id |-> "1002",
      title |-> "Mountain Home - 7 Pine Hill Rd",
      address |-> "7 Pine Hill Rd, Accident, MD 21520",
      price |-> 240000, bedrooms |-> 2, bathrooms |-> "1.5", sqft |-> 1400,
      imageUrl |-> "https://images.unsplash.com/photo-1570129477492-45c003edd2be?ixlib=rb-4.0.3&auto=format&fit=crop&w=400&h=300",
      description |-> "Beautiful comfortable home in the Maryland mountain area of Garrett County. This property offers mountain living, natural setting, four season location and is perfect for year-round living or as a vacation retreat in Deep Creek Lake area.",
      features |-> <<"Mountain Living", "Natural Setting", "Four Season Location">>,
      daysOnMarket |-> 0, mlsNumber |-> "1002" ]

\* The non-empty lists the extraction step yields in the model.
ParsedLists == { <<ParsedA>>, <<ParsedB, ParsedA>> }

\* Outcomes of the extraction step of fetchListings (lines 34-49).
Extractions ==
    { [threw |-> TRUE, properties |-> <<>>] }
      \cup { [threw |-> FALSE, properties |-> p] : p \in {<<>>} \cup ParsedLists }

\* ------------------------------------------------------------ variables
VARIABLES
    now,            \* Date.now()
    listings,       \* RaileyScraper.listings
    lastFetched,    \* RaileyScraper.lastFetched: <<>> is null, <<t>> a Date
    inflight,       \* per operation: the number of its calls that are
                    \* waiting on their extraction ("init" is the
                    \* constructor's initializeRaileyData())
    calls,          \* number of calls the environment has made
    fetchesDone,    \* number of fetchListings() calls that have returned
    lastFetch,      \* record of the fetchListings() call that returned last
    properties,     \* MemStorage.properties: a Map, as its entries in
                    \* insertion order
    uuids,          \* number of randomUUID() values drawn
    populations,    \* number of initializeRaileyData() runs that have ended
    allThrew,       \* every extraction step that has ended so far threw
    lastGet,        \* record of the getProperties() call that returned last
    cachedProperties,   \* OpenAIScraper.cachedProperties
    lastScrapeTime,     \* OpenAIScraper.lastScrapeTime
    scrapesDone,        \* number of scrapeRaileyListings() calls that ended
    lastScrape,         \* record of the one that ended last
    arg,            \* SpecFn: the helper to apply and its arguments
    result,         \* SpecFn: what the helper returned
    chatSessions,   \* MemStorage.chatSessions: a Map, as its values in
                    \* insertion order
    chatIds,        \* number of randomUUID() values drawn for sessions
    chat            \* per POST /api/chat request: where its handler is,
                    \* and the handler's local variables

scraperVars == <<listings, lastFetched>>
fetchLog == <<fetchesDone, lastFetch, allThrew>>
storeVars == <<properties, uuids, populations>>
fnVars == <<arg, result>>
mainVars == <<now, listings, lastFetched, inflight, calls, fetchesDone,
              lastFetch, properties, uuids, populations, allThrew,
              lastGet, cachedProperties, lastScrapeTime, scrapesDone,
              lastScrape>>
chatVars == <<chatSessions, chatIds, chat>>
vars == <<mainVars, fnVars, chatVars>>
openaiVars == <<cachedProperties, lastScrapeTime, scrapesDone, lastScrape>>

Ops == {"init", "fetch", "get", "scrape"}
begin(op) == [inflight EXCEPT ![op] = @ + 1]
\* A call whose awaited step has ended and which waits on another attempt.
endRetrying(op) == inflight
end(op) == [inflight EXCEPT ![op] = @ - 1]
NoFetch == [outcome |-> "none"]

\* --------------------------------------------- RaileyScraper.fetchListings
\* lines 27-30: the cached data is still valid
cacheValid(lf, t) == Len(lf) > 0 /\ t - lf[1] < cacheTimeout

\* fetchListingsTail with one branch changed at a time:
\*   "stamp"   the success branch does not set lastFetched
\*   "rethrow" the catch rethrows the error
\*   "nofall"  the catch returns this.listings without the sample fallback
\*   "empty"   the empty-result branch returns the (empty) parsed list
fetchListingsTailChanged(how, ls, lf, t, ext) ==
    IF ext.threw
    THEN [ threw |-> (how = "rethrow"),
           ret |-> IF how = "rethrow" THEN <<>>
                   ELSE IF Len(ls) > 0 \/ how = "nofall" THEN ls
                   ELSE getSampleData,
           listings |-> ls, lastFetched |-> lf ]
    ELSE IF Len(ext.properties) = 0
    THEN [ threw |-> FALSE,
           ret |-> IF how = "empty" THEN ext.properties ELSE getSampleData,
           listings |-> ls, lastFetched |-> lf ]
    ELSE [ threw |-> FALSE, ret |-> ext.properties,
           listings |-> ext.properties,
           lastFetched |-> IF how = "stamp" THEN lf ELSE <<t>> ]

fetchListingsTailNoStamp(ls, lf, t, ext) ==
    fetchListingsTailChanged("stamp", ls, lf, t, ext)
fetchListingsTailRethrow(ls, lf, t, ext) ==
    fetchListingsTailChanged("rethrow", ls, lf, t, ext)
fetchListingsTailNoFallback(ls, lf, t, ext) ==
    fetchListingsTailChanged("nofall", ls, lf, t, ext)
fetchListingsTailEmptyList(ls, lf, t, ext) ==
    fetchListingsTailChanged("empty", ls, lf, t, ext)

\* fetchListingsTail with the sample data kept in this.listings whenever it
\* is served.
fetchListingsTailStoreSample(ls, lf, t, ext) ==
    IF ext.threw
    THEN [ threw |-> FALSE,
           ret |-> IF Len(ls) > 0 THEN ls ELSE getSampleData,
           listings |-> IF Len(ls) > 0 THEN ls ELSE getSampleData,
           lastFetched |-> lf ]
    ELSE IF Len(ext.properties) = 0
    THEN [ threw |-> FALSE, ret |-> getSampleData,
           listings |-> getSampleData, lastFetched |-> lf ]
    ELSE [ threw |-> FALSE, ret |-> ext.properties,
           listings |-> ext.properties, lastFetched |-> <<t>> ]

\* fetchListingsTail with the success branch keeping a list that is already
\* cached and setting the timestamp all the same.
fetchListingsTailFirstWriterWins(ls, lf, t, ext) ==
    IF ext.threw
    THEN [ threw |-> FALSE,
           ret |-> IF Len(ls) > 0 THEN ls ELSE getSampleData,
           listings |-> ls, lastFetched |-> lf ]
    ELSE IF Len(ext.properties) = 0
    THEN [ threw |-> FALSE, ret |-> getSampleData,
           listings |-> ls, lastFetched |-> lf ]
    ELSE [ threw |-> FALSE, ret |-> ext.properties,
           listings |-> IF Len(ls) > 0 THEN ls ELSE ext.properties,
           lastFetched |-> <<t>> ]

\* fetchListingsTail with an empty extraction clearing the cache.
fetchListingsTailEvictOnEmpty(ls, lf, t, ext) ==
    IF ext.threw
    THEN [ threw |-> FALSE,
           ret |-> IF Len(ls) > 0 THEN ls ELSE getSampleData,
           listings |-> ls, lastFetched |-> lf ]
    ELSE IF Len(ext.properties) = 0
    THEN [ threw |-> FALSE, ret |-> getSampleData,
           listings |-> <<>>, lastFetched |-> <<>> ]
    ELSE [ threw |-> FALSE, ret |-> ext.properties,
           listings |-> ext.properties, lastFetched |-> <<t>> ]

\* lines 49-71: what the call does once the extraction step has ended with
\* outcome ext at time t; ls, lf are the cache fields at that moment.
fetchListingsTail(ls, lf, t, ext) ==
    IF ext.threw
    THEN \* catch (lines 66-71)
         [ threw |-> FALSE,
           ret |-> IF Len(ls) > 0 THEN ls ELSE getSampleData,
           listings |-> ls, lastFetched |-> lf ]
    ELSE IF Len(ext.properties) = 0
    THEN \* lines 51-57
         [ threw |-> FALSE, ret |-> getSampleData,
           listings |-> ls, lastFetched |-> lf ]
    ELSE \* lines 59-65
         [ threw |-> FALSE, ret |-> ext.properties,
           listings |-> ext.properties, lastFetched |-> <<t>> ]

\* The record kept of a returned fetchListings() call.
FetchRecord(outcome, ext, r) ==
    [ outcome |-> outcome,          \* "hit" | "ok" | "empty" | "error"
      end |-> now,                  \* when it returned
      extracted |-> ext,            \* what its extraction step yielded
      threw |-> r.threw, ret |-> r.ret,
      preListings |-> listings,     \* the cached list when the step ended
      prevOutcome |-> lastFetch.outcome ]   \* of the call that returned before

outcomeOf(ext) ==
    IF ext.threw THEN "error"
    ELSE IF Len(ext.properties) = 0 THEN "empty" ELSE "ok"

\* The bookkeeping of a fetchListings() call that returns.
LogFetch(rec, threw) ==
    /\ lastFetch' = rec
    /\ fetchesDone' = fetchesDone + 1
    /\ allThrew' = (allThrew /\ threw)

HitResult == [threw |-> FALSE, ret |-> listings,
              listings |-> listings, lastFetched |-> lastFetched]

\* raileyScraper.fetchListings() called directly; a cache hit returns at once.
CallFetchListings ==
    /\ calls < MaxCalls
    /\ calls' = calls + 1
    /\ IF cacheValid(lastFetched, now)
       THEN /\ LogFetch(FetchRecord("hit", <<>>, HitResult), allThrew)
            /\ UNCHANGED inflight
       ELSE /\ inflight' = begin("fetch")
            /\ UNCHANGED fetchLog
    /\ UNCHANGED openaiVars
    /\ UNCHANGED <<fnVars, chatVars>>
    /\ UNCHANGED <<now, scraperVars, storeVars, lastGet>>

\* The extraction of a direct fetchListings() call ends.
ReturnFetchListings(ext) ==
    /\ inflight["fetch"] > 0
    /\ LET r == fetchListingsTail(listings, lastFetched, now, ext) IN
       /\ listings' = r.listings
       /\ lastFetched' = r.lastFetched
       /\ LogFetch(FetchRecord(outcomeOf(ext), ext.properties, r), ext.threw)
    /\ inflight' = end("fetch")
    /\ UNCHANGED openaiVars
    /\ UNCHANGED <<fnVars, chatVars>>
    /\ UNCHANGED <<now, calls, storeVars, lastGet>>

\* ------------------------------------------------------------ MemStorage
\* RaileyScraper.convertToAppProperty (createdAt: new Date())
convertToAppProperty(rp, t) ==
    [ id |-> rp.id, title |-> rp.title, address |-> rp.address,
      price |-> rp.price, bedrooms |-> rp.bedrooms, bathrooms |-> rp.bathrooms,
      imageUrl |-> rp.imageUrl, description |-> rp.description,
      features |-> rp.features, createdAt |-> t ]

\* Map.prototype.set: an existing key keeps its place, a new one goes last.
mapSet(m, k, v) ==
    IF \E i \in 1..Len(m) : m[i].key = k
    THEN [i \in 1..Len(m) |->
             IF m[i].key = k THEN [key |-> k, value |-> v] ELSE m[i]]
    ELSE Append(m, [key |-> k, value |-> v])

\* Array.from(map.values())
mapValues(m) == [i \in 1..Len(m) |-> m[i].value]

\* A forEach that stops after the first property.
storeAllFirstOnly(m, ps) ==
    IF Len(ps) = 0 THEN m ELSE mapSet(m, Head(ps).id, Head(ps))

\* storage.ts:43-49: the forEach that stores each converted property under
\* its id, with `description || null`.
RECURSIVE storeAll(_, _)
storeAll(m, ps) ==
    IF Len(ps) = 0 THEN m
    ELSE storeAll(
           mapSet(m, Head(ps).id,
                  [Head(ps) EXCEPT !.description =
                      IF Head(ps).description = "" THEN Null
                      ELSE Head(ps).description]),
           Tail(ps))

\* initializeRaileyData storing every fetched record.
initializeRaileyDataAll(m, fr, t) ==
    IF fr.threw
    THEN m
    ELSE storeAll(m, [i \in 1..Len(fr.ret) |->
                        convertToAppProperty(fr.ret[i], t)])

\* storage.ts:36-55, after `await raileyScraper.fetchListings()` has settled
\* with fr at time t: the new value of the properties map.
initializeRaileyData(m, fr, t) ==
    IF fr.threw
    THEN m      \* catch (lines 52-54)
    ELSE LET first == slice(fr.ret, 12)
             converted == [i \in 1..Len(first) |->
                              convertToAppProperty(first[i], t)]
         IN storeAll(m, converted)

\* storage.ts:59: this.properties.size === 0
needsInit(m) == Len(m) = 0

\* The record kept of a returned getProperties() call.
GetRecord(ret, fetched, sawEmpty) ==
    [ status |-> "ok", ret |-> ret,
      fetched |-> fetched,          \* it called fetchListings()
      sawEmpty |-> sawEmpty,        \* properties.size === 0 when it was called
      allThrew |-> allThrew',       \* see allThrew, when it returned
      triggered |->                 \* populations getProperties() has run
          (IF lastGet.status = "none" THEN 0 ELSE lastGet.triggered)
            + (IF fetched THEN 1 ELSE 0) ]
NoGet == [status |-> "none"]

\* storage.getProperties() is called (GET /api/properties).
CallGetProperties ==
    /\ calls < MaxCalls
    /\ calls' = calls + 1
    /\ IF ~needsInit(properties)
       THEN /\ UNCHANGED <<inflight, fetchLog, storeVars>>
            /\ lastGet' = GetRecord(mapValues(properties), FALSE,
                                    Len(properties) = 0)
       ELSE IF cacheValid(lastFetched, now)
       THEN /\ LogFetch(FetchRecord("hit", <<>>, HitResult), allThrew)
            /\ properties' = initializeRaileyData(properties, HitResult, now)
            /\ populations' = populations + 1
            /\ lastGet' = GetRecord(mapValues(properties'), TRUE,
                                    Len(properties) = 0)
            /\ UNCHANGED <<inflight, uuids>>
       ELSE /\ inflight' = begin("get")
            /\ UNCHANGED <<fetchLog, storeVars, lastGet>>
    /\ UNCHANGED openaiVars
    /\ UNCHANGED <<fnVars, chatVars>>
    /\ UNCHANGED <<now, scraperVars>>

\* The extraction awaited by a getProperties() call ends: fetchListings()
\* returns, initializeRaileyData() fills the map, getProperties() returns.
ReturnGetProperties(ext) ==
    /\ inflight["get"] > 0
    /\ LET r == fetchListingsTail(listings, lastFetched, now, ext) IN
       /\ listings' = r.listings
       /\ lastFetched' = r.lastFetched
       /\ LogFetch(FetchRecord(outcomeOf(ext), ext.properties, r), ext.threw)
       /\ properties' = initializeRaileyData(properties, r, now)
    /\ populations' = populations + 1
    /\ lastGet' = GetRecord(mapValues(properties'), TRUE, TRUE)
    /\ inflight' = end("get")
    /\ UNCHANGED openaiVars
    /\ UNCHANGED <<fnVars, chatVars>>
    /\ UNCHANGED <<now, calls, uuids>>

\* The extraction awaited by the constructor's initializeRaileyData() ends.
ReturnInitializeRaileyData(ext) ==
    /\ inflight["init"] > 0
    /\ LET r == fetchListingsTail(listings, lastFetched, now, ext) IN
       /\ listings' = r.listings
       /\ lastFetched' = r.lastFetched
       /\ LogFetch(FetchRecord(outcomeOf(ext), ext.properties, r), ext.threw)
       /\ properties' = initializeRaileyData(properties, r, now)
    /\ populations' = populations + 1
    /\ inflight' = end("init")
    /\ UNCHANGED openaiVars
    /\ UNCHANGED <<fnVars, chatVars>>
    /\ UNCHANGED <<now, calls, uuids, lastGet>>

\* Inputs of createProperty in the model.
InsertProperties ==
    { [ title |-> "Hillside Cottage", address |-> "9 Ridge Ln, Oakland, MD",
        price |-> 150000, bedrooms |-> 2, bathrooms |-> "1",
        imageUrl |-> "https://example.com/cottage.jpg",
        description |-> "Small cottage", features |-> <<"Porch">> ],
      [ title |-> "Lot 4", address |-> "Lot 4, Swanton, MD",
        price |-> -1, bedrooms |-> 0, bathrooms |-> "0",
        imageUrl |-> "",
        description |-> Null, features |-> <<>> ] }

\* storage.createProperty(insertProperty)
CreateProperty(ip) ==
    /\ calls < MaxCalls
    /\ calls' = calls + 1
    /\ LET id == "uuid-" \o ToString(uuids + 1)
           property == [ id |-> id, title |-> ip.title, address |-> ip.address,
                         price |-> ip.price, bedrooms |-> ip.bedrooms,
                         bathrooms |-> ip.bathrooms, imageUrl |-> ip.imageUrl,
                         description |-> ip.description,
                         features |-> ip.features, createdAt |-> now ]
       IN properties' = mapSet(properties, id, property)
    /\ uuids' = uuids + 1
    /\ UNCHANGED openaiVars
    /\ UNCHANGED <<fnVars, chatVars>>
    /\ UNCHANGED <<now, scraperVars, inflight, fetchLog, populations,
                   lastGet>>

\* A lookup that gives the first value of the map whatever the key.
mapGetFirst(m, k) == IF Len(m) = 0 THEN <<>> ELSE <<m[1].value>>

\* Map.prototype.get: <<>> is undefined, <<v>> a value
mapGet(m, k) ==
    IF \E i \in 1..Len(m) : m[i].key = k
    THEN <<(CHOOSE e \in {m[i] : i \in 1..Len(m)} : e.key = k).value>>
    ELSE <<>>

\* Ids asked for in the model.
LookupIds == {"sample-1", "no-such-id"}

\* storage.getProperty(id): returns mapGet(properties, id), changes nothing.
GetProperty(id) ==
    /\ id \in LookupIds
    /\ UNCHANGED vars

\* Array.prototype.some over the feature tags
someFeature(features, searchTerm) ==
    \E i \in 1..Len(features) : includes(toLowerCase(features[i]), searchTerm)

\* storage.ts:73-83: the filter predicate of searchProperties; maxPrice is
\* <<>> when not given, <<n>> when given.
matchesSearch(property, searchTerm, maxPrice) ==
    LET matchesQuery ==
            \/ includes(toLowerCase(property.title), searchTerm)
            \/ includes(toLowerCase(property.address), searchTerm)
            \/ (property.description # Null
                  /\ includes(toLowerCase(property.description), searchTerm))
            \/ someFeature(property.features, searchTerm)
        matchesPrice ==
            IF Len(maxPrice) > 0 /\ maxPrice[1] # 0
            THEN property.price <= maxPrice[1]
            ELSE TRUE
    IN matchesQuery /\ matchesPrice

\* Array.prototype.filter
RECURSIVE filterMatches(_, _, _)
filterMatches(ps, searchTerm, maxPrice) ==
    IF Len(ps) = 0 THEN <<>>
    ELSE (IF matchesSearch(Head(ps), searchTerm, maxPrice)
          THEN <<Head(ps)>> ELSE <<>>)
         \o filterMatches(Tail(ps), searchTerm, maxPrice)

\* storage.searchProperties(query, maxPrice)
searchProperties(m, query, maxPrice) ==
    filterMatches(mapValues(m), toLowerCase(query), maxPrice)

\* Queries and price bounds asked for in the model.
Queries == {"Lake"}
MaxPrices == {<<400000>>}

\* storage.searchProperties(query, maxPrice): returns the filtered values,
\* changes nothing.
SearchProperties(query, maxPrice) ==
    /\ query \in Queries
    /\ maxPrice \in MaxPrices
    /\ UNCHANGED vars

\* --------------------------------------------------------- OpenAIScraper
\* A field the service's JSON leaves out (or gives as null).
Undefined == "<undefined>"

\* str.replace(/[^0-9]/g, '')
RECURSIVE stripNonDigits(_)
stripNonDigits(str) ==
    IF Len(str) = 0 THEN ""
    ELSE (IF Head(str) \in {"0", "1", "2", "3", "4", "5", "6", "7", "8", "9"}
          THEN Head(str) ELSE "")
         \o stripNonDigits(Tail(str))

digitValue(c) ==
    CASE c = "0" -> 0 [] c = "1" -> 1 [] c = "2" -> 2 [] c = "3" -> 3
      [] c = "4" -> 4 [] c = "5" -> 5 [] c = "6" -> 6 [] c = "7" -> 7
      [] c = "8" -> 8 [] c = "9" -> 9

\* parseInt of a string of decimal digits
RECURSIVE parseDigits(_, _)
parseDigits(acc, digits) ==
    IF Len(digits) = 0 THEN acc
    ELSE parseDigits(acc * 10 + digitValue(Head(digits)), Tail(digits))

\* part_002:469: a price is <<"number", n>>, <<"string", s>> or <<>> (absent)
priceOf(price) ==
    IF Len(price) > 0 /\ price[1] = "number" THEN price[2]
    ELSE LET digits == IF Len(price) = 0 THEN "" ELSE stripNonDigits(price[2])
         IN parseDigits(0, IF digits = "" THEN "0" ELSE digits)

\* features.some(f => f.toLowerCase().includes(a) || f.toLowerCase().includes(b))
someIncludes(features, a, b) ==
    \E i \in 1..Len(features) :
        \/ includes(toLowerCase(features[i]), a)
        \/ includes(toLowerCase(features[i]), b)

\* OpenAIScraper.generateTitle
openaiGenerateTitle(address, features) ==
    IF someIncludes(features, "lakefront", "lake") THEN "Lakefront Property"
    ELSE IF someIncludes(features, "ski", "wisp") THEN "Ski Access Property"
    ELSE IF someIncludes(features, "mountain", "view") THEN "Mountain View Home"
    ELSE "Deep Creek Lake Area Home"

\* OpenAIScraper.getPlaceholderImage
getPlaceholderImage(features) ==
    IF someIncludes(features, "lakefront", "lake")
    THEN "https://images.unsplash.com/photo-1564013799919-ab600027ffc6?ixlib=rb-4.0.3&auto=format&fit=crop&w=400&h=300"
    ELSE IF someIncludes(features, "ski", "ski")
    THEN "https://images.unsplash.com/photo-1545324418-cc1a3fa10c00?ixlib=rb-4.0.3&auto=format&fit=crop&w=400&h=300"
    ELSE IF someIncludes(features, "mountain", "mountain")
    THEN "https://images.unsplash.com/photo-1570129477492-45c003edd2be?ixlib=rb-4.0.3&auto=format&fit=crop&w=400&h=300"
    ELSE "https://images.unsplash.com/photo-1518780664697-55e3ad937233?ixlib=rb-4.0.3&auto=format&fit=crop&w=400&h=300"

\* The record mapping without the defaults for absent text fields.
toScrapedPropertyNoDefaults(prop, index, t) ==
    LET features == IF prop.features = Undefined THEN <<>> ELSE prop.features IN
    [ id |-> "railey-" \o ToString(t) \o "-" \o ToString(index),
      title |-> openaiGenerateTitle(prop.address, features),
      address |-> prop.address,
      price |-> priceOf(prop.price),
      bedrooms |-> prop.bedrooms,
      bathrooms |-> prop.bathrooms,
      sqft |-> prop.sqft,
      imageUrl |-> getPlaceholderImage(features),
      description |-> prop.description,
      features |-> features,
      mlsNumber |-> IF prop.mlsNumber = "" THEN Undefined ELSE prop.mlsNumber,
      listingUrl |-> IF prop.listingUrl = "" THEN Undefined ELSE prop.listingUrl,
      daysOnMarket |-> prop.random ]

\* part_002:462-480: one record of result.properties mapped to a
\* ScrapedProperty; index counts from 0, t is Date.now(), prop.random is the
\* Math.random() draw made for it (as the day count it gives).
toScrapedProperty(prop, index, t) ==
    LET features == IF prop.features = Undefined THEN <<>> ELSE prop.features IN
    [ id |-> "railey-" \o ToString(t) \o "-" \o ToString(index),
      title |-> openaiGenerateTitle(prop.address, features),
      address |-> IF prop.address = Undefined \/ prop.address = ""
                  THEN "Address not available" ELSE prop.address,
      price |-> priceOf(prop.price),
      bedrooms |-> prop.bedrooms,
      bathrooms |-> IF prop.bathrooms = Undefined \/ prop.bathrooms = ""
                    THEN "0" ELSE prop.bathrooms,
      sqft |-> prop.sqft,
      imageUrl |-> getPlaceholderImage(features),
      description |-> IF prop.description = Undefined \/ prop.description = ""
                      THEN "Property description not available"
                      ELSE prop.description,
      features |-> features,
      mlsNumber |-> IF prop.mlsNumber = "" THEN Undefined ELSE prop.mlsNumber,
      listingUrl |-> IF prop.listingUrl = "" THEN Undefined ELSE prop.listingUrl,
      daysOnMarket |-> prop.random ]

\* Records of result.properties in the model.
RawA ==
    [ address |-> "88 Marsh Hill Rd, McHenry, MD", price |-> <<"number", 610000>>,
      bedrooms |-> 4, bathrooms |-> "3.5", sqft |-> 3000,
      description |-> "Ski home near Wisp", features |-> <<"Ski Access">>,
      mlsNumber |-> "MDGA2001", listingUrl |-> Undefined, random |-> 7 ]
RawB ==
    [ address |-> Undefined, price |-> <<"string", "$325,000">>,
      bedrooms |-> 0, bathrooms |-> Undefined, sqft |-> 0,
      description |-> Undefined, features |-> Undefined,
      mlsNumber |-> Undefined, listingUrl |-> Undefined, random |-> 30 ]

\* What a scrape meets: the page fetch rejects or answers non-2xx; the
\* service call fails; its content is not JSON; the JSON has no properties
\* array; or it has one.
ScrapeInputs ==
    { [kind |-> k, properties |-> <<>>] :
         k \in {"fetchRejects", "httpError", "apiError", "invalidJson",
                "noProperties"} }
      \cup { [kind |-> "properties", properties |-> ps] :
                ps \in {<<>>, <<RawA>>, <<RawB, RawA>>} }

\* OpenAIScraper.extractPropertiesWithOpenAI at time t
extractPropertiesWithOpenAI(in, t) ==
    IF in.kind \in {"apiError", "invalidJson"}
    THEN [threw |-> TRUE, properties |-> <<>>]      \* catch: throw error
    ELSE IF in.kind = "noProperties"
    THEN [threw |-> FALSE, properties |-> <<>>]     \* lines 456-459
    ELSE [threw |-> FALSE,
          properties |-> [i \in 1..Len(in.properties) |->
                             toScrapedProperty(in.properties[i], i - 1, t)]]

\* scrapeRaileyListings storing whatever the extraction gave, empty or not.
scrapeRaileyListingsAlwaysStore(cp, lst, t, in) ==
    IF in.kind \in {"fetchRejects", "httpError"}
    THEN [threw |-> TRUE, ret |-> <<>>,
          cachedProperties |-> cp, lastScrapeTime |-> lst]
    ELSE LET x == extractPropertiesWithOpenAI(in, t) IN
         IF x.threw
         THEN [threw |-> TRUE, ret |-> <<>>,
               cachedProperties |-> cp, lastScrapeTime |-> lst]
         ELSE [threw |-> FALSE, ret |-> x.properties,
               cachedProperties |-> x.properties, lastScrapeTime |-> t]

\* scrapeRaileyListings that leaves lastScrapeTime alone.
scrapeRaileyListingsNoStamp(cp, lst, t, in) ==
    IF in.kind \in {"fetchRejects", "httpError"}
    THEN [threw |-> TRUE, ret |-> <<>>,
          cachedProperties |-> cp, lastScrapeTime |-> lst]
    ELSE LET x == extractPropertiesWithOpenAI(in, t) IN
         IF x.threw
         THEN [threw |-> TRUE, ret |-> <<>>,
               cachedProperties |-> cp, lastScrapeTime |-> lst]
         ELSE IF Len(x.properties) > 0
         THEN [threw |-> FALSE, ret |-> x.properties,
               cachedProperties |-> x.properties, lastScrapeTime |-> lst]
         ELSE [threw |-> FALSE, ret |-> cp,
               cachedProperties |-> cp, lastScrapeTime |-> lst]

\* scrapeRaileyListings whose catch drops the cache and returns it empty.
scrapeRaileyListingsDropOnError(cp, lst, t, in) ==
    IF in.kind \in {"fetchRejects", "httpError"}
    THEN [threw |-> FALSE, ret |-> <<>>,
          cachedProperties |-> <<>>, lastScrapeTime |-> 0]
    ELSE LET x == extractPropertiesWithOpenAI(in, t) IN
         IF x.threw
         THEN [threw |-> FALSE, ret |-> <<>>,
               cachedProperties |-> <<>>, lastScrapeTime |-> 0]
         ELSE IF Len(x.properties) > 0
         THEN [threw |-> FALSE, ret |-> x.properties,
               cachedProperties |-> x.properties, lastScrapeTime |-> t]
         ELSE [threw |-> FALSE, ret |-> cp,
               cachedProperties |-> cp, lastScrapeTime |-> lst]

\* scrapeRaileyListings answering from the cache, without fetching, while
\* the last successful scrape is younger than RaileyScraper's cacheTimeout.
scrapeRaileyListingsWhenStale(cp, lst, t, in) ==
    IF lst > 0 /\ t - lst < cacheTimeout
    THEN [threw |-> FALSE, ret |-> cp,
          cachedProperties |-> cp, lastScrapeTime |-> lst]
    ELSE IF in.kind \in {"fetchRejects", "httpError"}
    THEN [threw |-> TRUE, ret |-> <<>>,
          cachedProperties |-> cp, lastScrapeTime |-> lst]
    ELSE LET x == extractPropertiesWithOpenAI(in, t) IN
         IF x.threw
         THEN [threw |-> TRUE, ret |-> <<>>,
               cachedProperties |-> cp, lastScrapeTime |-> lst]
         ELSE IF Len(x.properties) > 0
         THEN [threw |-> FALSE, ret |-> x.properties,
               cachedProperties |-> x.properties, lastScrapeTime |-> t]
         ELSE [threw |-> FALSE, ret |-> cp,
               cachedProperties |-> cp, lastScrapeTime |-> lst]

\* scrapeRaileyListings setting lastScrapeTime after every extraction that
\* did not fail, with or without properties.
scrapeRaileyListingsStampAlways(cp, lst, t, in) ==
    IF in.kind \in {"fetchRejects", "httpError"}
    THEN [threw |-> TRUE, ret |-> <<>>,
          cachedProperties |-> cp, lastScrapeTime |-> lst]
    ELSE LET x == extractPropertiesWithOpenAI(in, t) IN
         IF x.threw
         THEN [threw |-> TRUE, ret |-> <<>>,
               cachedProperties |-> cp, lastScrapeTime |-> lst]
         ELSE IF Len(x.properties) > 0
         THEN [threw |-> FALSE, ret |-> x.properties,
               cachedProperties |-> x.properties, lastScrapeTime |-> t]
         ELSE [threw |-> FALSE, ret |-> cp,
               cachedProperties |-> cp, lastScrapeTime |-> t]

\* OpenAIScraper.scrapeRaileyListings, from its fetch to its return, at
\* time t with cache fields cp, lst.
scrapeRaileyListings(cp, lst, t, in) ==
    IF in.kind \in {"fetchRejects", "httpError"}
    THEN [threw |-> TRUE, ret |-> <<>>,              \* lines 367-375, 393-396
          cachedProperties |-> cp, lastScrapeTime |-> lst]
    ELSE LET x == extractPropertiesWithOpenAI(in, t) IN
         IF x.threw
         THEN [threw |-> TRUE, ret |-> <<>>,          \* lines 393-396
               cachedProperties |-> cp, lastScrapeTime |-> lst]
         ELSE IF Len(x.properties) > 0
         THEN [threw |-> FALSE, ret |-> x.properties, \* lines 383-386, 391
               cachedProperties |-> x.properties, lastScrapeTime |-> t]
         ELSE [threw |-> FALSE, ret |-> cp,           \* lines 387-391
               cachedProperties |-> cp, lastScrapeTime |-> lst]

\* What the extraction of a scrape yields: "threw", or the records.
scrapeOutcome(in) ==
    IF in.kind \in {"fetchRejects", "httpError", "apiError", "invalidJson"}
    THEN "threw"
    ELSE IF in.kind = "noProperties" \/ Len(in.properties) = 0 THEN "empty"
    ELSE "ok"

\* openaiScraper.scrapeRaileyListings() is called: it awaits its fetch.
CallScrapeRaileyListings ==
    /\ calls < MaxCalls
    /\ calls' = calls + 1
    /\ inflight' = begin("scrape")
    /\ UNCHANGED <<fnVars, chatVars>>
    /\ UNCHANGED <<now, scraperVars, fetchLog, storeVars, lastGet, openaiVars>>

\* The fetch and the extraction of a scrapeRaileyListings() call end.
ReturnScrapeRaileyListings(in) ==
    /\ inflight["scrape"] > 0
    /\ LET r == scrapeRaileyListings(cachedProperties, lastScrapeTime, now, in) IN
       /\ cachedProperties' = r.cachedProperties
       /\ lastScrapeTime' = r.lastScrapeTime
       /\ lastScrape' =
             [ outcome |-> scrapeOutcome(in),
               extracted |-> IF scrapeOutcome(in) = "ok"
                             THEN extractPropertiesWithOpenAI(in, now).properties
                             ELSE <<>>,
               threw |-> r.threw, ret |-> r.ret,
               preCached |-> cachedProperties ]
    /\ scrapesDone' = scrapesDone + 1
    /\ inflight' = end("scrape")
    /\ UNCHANGED <<fnVars, chatVars>>
    /\ UNCHANGED <<now, calls, scraperVars, fetchLog, storeVars, lastGet>>

\* ------------------------------------------- RaileyScraper's helpers
\* The positions of a character in a string.
positionsOf(str, c) == {i \in 1..Len(str) : SubSeq(str, i, i) = c}

SetMin(S) == CHOOSE x \in S : \A y \in S : x <= y
SetMax(S) == CHOOSE x \in S : \A y \in S : x >= y

\* String.prototype.trim, for blanks
trim(str) ==
    LET kept == (1..Len(str)) \ positionsOf(str, " ") IN
    IF kept = {} THEN "" ELSE SubSeq(str, SetMin(kept), SetMax(kept))

\* str.split(",")[0]
splitFirst(str) ==
    LET commas == positionsOf(str, ",") IN
    IF commas = {} THEN str ELSE SubSeq(str, 1, SetMin(commas) - 1)

\* str.replace(/,/g, "")
RECURSIVE removeCommas(_)
removeCommas(str) ==
    IF Len(str) = 0 THEN ""
    ELSE (IF Head(str) = "," THEN "" ELSE Head(str))
         \o removeCommas(Tail(str))

\* parseInt of a string that starts with a decimal digit and holds nothing
\* but digits (what listingPattern's groups hold once commas are removed)
parseInt(str) == parseDigits(0, str)

\* Array.prototype.includes
arrayIncludes(arr, x) == \E i \in 1..Len(arr) : arr[i] = x

\* Array.prototype.join
RECURSIVE join(_, _)
join(arr, sep) ==
    IF Len(arr) = 0 THEN ""
    ELSE IF Len(arr) = 1 THEN arr[1]
    ELSE arr[1] \o sep \o join(Tail(arr), sep)

\* extractFeatures without the default tags.
extractFeaturesNoDefault(address, sqft, price) ==
    LET lower == toLowerCase(address) IN
       (IF includes(lower, "deep creek") \/ includes(lower, "lake")
        THEN <<"Lake Access", "Mountain Views">> ELSE <<>>)
    \o (IF includes(lower, "wisp") \/ includes(lower, "ski")
        THEN <<"Ski Access", "Resort Area">> ELSE <<>>)
    \o (IF includes(lower, "garrett")
        THEN <<"Garrett County", "Mountain Location">> ELSE <<>>)
    \o (IF sqft > 2500 THEN <<"Spacious Living", "Large Floor Plan">> ELSE <<>>)
    \o (IF sqft > 3500 THEN <<"Luxury Home">> ELSE <<>>)
    \o (IF price > 500000
        THEN <<"Premium Property", "High-End Finishes">> ELSE <<>>)
    \o (IF price > 750000 THEN <<"Luxury Estate">> ELSE <<>>)

\* RaileyScraper.extractFeatures (part_002:134-184)
extractFeatures(address, sqft, price) ==
    LET lower == toLowerCase(address)
        features ==
               (IF includes(lower, "deep creek") \/ includes(lower, "lake")
                THEN <<"Lake Access", "Mountain Views">> ELSE <<>>)
            \o (IF includes(lower, "wisp") \/ includes(lower, "ski")
                THEN <<"Ski Access", "Resort Area">> ELSE <<>>)
            \o (IF includes(lower, "garrett")
                THEN <<"Garrett County", "Mountain Location">> ELSE <<>>)
            \o (IF sqft > 2500
                THEN <<"Spacious Living", "Large Floor Plan">> ELSE <<>>)
            \o (IF sqft > 3500 THEN <<"Luxury Home">> ELSE <<>>)
            \o (IF price > 500000
                THEN <<"Premium Property", "High-End Finishes">> ELSE <<>>)
            \o (IF price > 750000 THEN <<"Luxury Estate">> ELSE <<>>)
    IN IF Len(features) = 0
       THEN <<"Mountain Living", "Natural Setting", "Four Season Location">>
       ELSE features

\* generateTitle that looks for the ski tag first.
generateTitleSkiFirst(address, features) ==
    IF arrayIncludes(features, "Ski Access")
    THEN "Ski Resort Property - " \o splitFirst(address)
    ELSE IF arrayIncludes(features, "Lake Access")
    THEN "Lake Access Home - " \o splitFirst(address)
    ELSE IF arrayIncludes(features, "Luxury Estate")
    THEN "Luxury Mountain Estate - " \o splitFirst(address)
    ELSE "Mountain Home - " \o splitFirst(address)

\* RaileyScraper.generateTitle (part_002:186-198)
generateTitle(address, features) ==
    IF arrayIncludes(features, "Lake Access")
    THEN "Lake Access Home - " \o splitFirst(address)
    ELSE IF arrayIncludes(features, "Ski Access")
    THEN "Ski Resort Property - " \o splitFirst(address)
    ELSE IF arrayIncludes(features, "Luxury Estate")
    THEN "Luxury Mountain Estate - " \o splitFirst(address)
    ELSE "Mountain Home - " \o splitFirst(address)

\* generateDescription listing every tag.
generateDescriptionAllTags(address, features, price) ==
    LET location == IF includes(address, "MD") THEN "Maryland mountain"
                    ELSE "scenic"
        priceRange == IF price > 500000 THEN "luxury"
                      ELSE IF price > 300000 THEN "premium" ELSE "comfortable"
    IN "Beautiful " \o priceRange \o " home in the " \o location
         \o " area of Garrett County. This property offers "
         \o toLowerCase(join(features, ", "))
         \o " and is perfect for year-round living or as a vacation retreat in Deep Creek Lake area."

\* RaileyScraper.generateDescription (part_002:200-210)
generateDescription(address, features, price) ==
    LET location == IF includes(address, "MD") THEN "Maryland mountain"
                    ELSE "scenic"
        priceRange == IF price > 500000 THEN "luxury"
                      ELSE IF price > 300000 THEN "premium" ELSE "comfortable"
    IN "Beautiful " \o priceRange \o " home in the " \o location
         \o " area of Garrett County. This property offers "
         \o toLowerCase(join(slice(features, 3), ", "))
         \o " and is perfect for year-round living or as a vacation retreat in Deep Creek Lake area."

\* part_002:96-103: the src of the first img whose alt holds the MLS number,
\* or the placeholder.
imageUrlFor(html, mlsNumber) ==
    LET imgs == {i \in 1..Len(html) :
                    /\ html[i].kind = "img"
                    /\ includes(html[i].alt, mlsNumber)}
    IN IF imgs = {}
       THEN "https://images.unsplash.com/photo-1570129477492-45c003edd2be?ixlib=rb-4.0.3&auto=format&fit=crop&w=400&h=300"
       ELSE html[SetMin(imgs)].src

\* part_002:86-123: the record pushed for one match of listingPattern
recordOfMatch(html, match) ==
    LET price == parseInt(removeCommas(match.priceStr))
        address == trim(match.addressLine)
        squareFeet == parseInt(removeCommas(match.sqft))
        features == extractFeatures(address, squareFeet, price)
    IN [ id |-> match.mlsNumber,
         title |-> generateTitle(address, features),
         address |-> address,
         price |-> price,
         bedrooms |-> parseInt(match.beds),
         bathrooms |-> match.baths,
         sqft |-> squareFeet,
         imageUrl |-> imageUrlFor(html, match.mlsNumber),
         description |-> generateDescription(address, features, price),
         features |-> features,
         daysOnMarket |-> 0,
         mlsNumber |-> match.mlsNumber ]

\* The matches listingPattern.exec finds in a page, in document order.
matchesOf(html) == SelectSeq(html, LAMBDA seg : seg.kind = "listing")

\* parseListingsFromHtml whose loop has no limit.
parseListingsFromHtmlNoCap(html) ==
    LET matches == matchesOf(html) IN
    IF Len(matches) = 0 THEN getSampleData
    ELSE [i \in 1..Len(matches) |-> recordOfMatch(html, matches[i])]

\* RaileyScraper.parseListingsFromHtml (part_002:74-132): one record per
\* match while properties.length < 50; the sample data when there is none.
parseListingsFromHtml(html) ==
    LET matches == matchesOf(html)
        pushed == [i \in 1..Min(Len(matches), 50) |->
                      recordOfMatch(html, matches[i])]
    IN IF Len(pushed) = 0 THEN getSampleData ELSE pushed

\* Time passes.
Tick ==
    /\ now + TickMs <= StartTime + MaxTicks * TickMs
    /\ now' = now + TickMs
    /\ UNCHANGED openaiVars
    /\ UNCHANGED <<fnVars, chatVars>>
    /\ UNCHANGED <<scraperVars, inflight, calls, fetchLog, storeVars,
                   lastGet>>

\* `new MemStorage()` (storage.ts:27-34) has run: the maps are empty and its
\* initializeRaileyData() has called fetchListings(), which found no cache
\* and is waiting on its extraction.
InitMain ==
    /\ now = StartTime
    /\ listings = <<>>
    /\ lastFetched = <<>>
    /\ inflight = [op \in Ops |-> IF op = "init" THEN 1 ELSE 0]
    /\ calls = 0
    /\ fetchesDone = 0
    /\ lastFetch = NoFetch
    /\ properties = <<>>
    /\ uuids = 0
    /\ populations = 0
    /\ allThrew = TRUE
    /\ lastGet = NoGet
    /\ cachedProperties = <<>>
    /\ lastScrapeTime = 0
    /\ scrapesDone = 0
    /\ lastScrape = [outcome |-> "none"]

\* No helper is being applied.
NoArg == [fn |-> "none"]
NoResult == [fn |-> "none"]

\* The POST /api/chat requests of the model, and the handler of a request
\* that has not arrived.
Requests == 1..MaxRequests
NoRequest == [pc |-> "idle", sessionId |-> "", message |-> "",
              session |-> <<>>, updated |-> <<>>, ai |-> "", reply |-> ""]

\* storage.ts:30: `this.chatSessions = new Map()`; no request has arrived.
InitChat ==
    /\ chatSessions = <<>>
    /\ chatIds = 0
    /\ chat = [r \in Requests |-> NoRequest]

Init ==
    /\ InitMain
    /\ arg = NoArg
    /\ result = NoResult
    /\ InitChat

Next ==
    \/ Tick
    \/ CallFetchListings
    \/ \E ext \in Extractions : ReturnFetchListings(ext)
    \/ CallGetProperties
    \/ \E ext \in Extractions : ReturnGetProperties(ext)
    \/ \E ext \in Extractions : ReturnInitializeRaileyData(ext)
    \/ \E ip \in InsertProperties : CreateProperty(ip)
    \/ \E id \in LookupIds : GetProperty(id)
    \/ \E q \in Queries, mp \in MaxPrices : SearchProperties(q, mp)
    \/ CallScrapeRaileyListings
    \/ \E in \in ScrapeInputs : ReturnScrapeRaileyListings(in)

Spec == Init /\ [][Next]_vars

\* ------------------------------------------------ the helpers, applied
\* Addresses, areas and prices extractFeatures is applied to.
Addresses ==
    { "100 Deep Creek Dr, McHenry, MD", "7 LAKESIDE CT, Oakland, MD",
      "12 Wisp Mountain Rd, McHenry, MD", "3 Skipper Ln, Garrett Hwy",
      "45 Main St, Oakland, MD", "Swanton" }
Areas == {2500, 2501, 3500, 3501}
Prices == {500000, 500001, 750000, 750001}

\* Tag lists generateTitle is applied to.
TagLists ==
    { <<>>, <<"Lake Access", "Mountain Views">>,
      <<"Ski Access", "Resort Area">>, <<"Luxury Estate">>,
      <<"Ski Access", "Resort Area", "Lake Access">>,
      <<"Premium Property", "Luxury Estate", "Ski Access">>,
      <<"Luxury Estate", "Lake Access">>,
      <<"Mountain Living", "Natural Setting", "Four Season Location">>,
      <<"lake access">>, <<"Lakefront", "Wisp View">> }

\* The i-th listing of a page: text in which listingPattern has one match,
\* as the groups it captures.
listingSegment(i) ==
    [ kind |-> "listing",
      mlsNumber |-> ToString(1000 + i),
      url |-> "/listings/" \o ToString(1000 + i),
      priceStr |-> CASE i % 3 = 0 -> "1,250,000"
                     [] i % 3 = 1 -> "450,000"
                     [] OTHER -> "240000",
      addressLine |-> CASE i % 4 = 0 -> " 100 Deep Creek Dr, McHenry, MD "
                        [] i % 4 = 1 -> "12 Wisp Mountain Rd, McHenry, MD"
                        [] i % 4 = 2 -> "45 Main St, Oakland, MD"
                        [] OTHER -> "3 Lake Shore Dr, Garrett County, MD",
      beds |-> IF i % 2 = 0 THEN "3" ELSE "12",
      baths |-> IF i % 2 = 0 THEN "2.5" ELSE "2",
      sqft |-> IF i % 2 = 0 THEN "2,600" ELSE "980" ]

\* Text in which listingPattern has no match.
textSegment == [kind |-> "text"]
\* An img element.
imgSegment(i) ==
    [ kind |-> "img",
      src |-> "https://www.railey.com/img/" \o ToString(1000 + i) \o ".jpg",
      alt |-> "Listing " \o ToString(1000 + i) \o " photo" ]

\* Numbers of listings in the pages parsed.
PageSizes == {0, 1, 2, 3, 49, 50, 51, 80}

\* A page of n listings: bare, or with other text between them and the
\* image of every second listing in front.
page(n, style) ==
    IF style = "bare"
    THEN [i \in 1..n |-> listingSegment(i)]
    ELSE [j \in 1..(2 * n + 1) |->
             IF j % 2 = 0 THEN listingSegment(j \div 2)
             ELSE IF j % 4 = 1 THEN imgSegment((j + 3) \div 2)
             ELSE textSegment]

\* Prices a record of the service's response carries: none, numbers, and
\* strings with and without digits.
RawPrices ==
    { <<>>, <<"number", 0>>, <<"number", 610000>>, <<"string", "">>,
      <<"string", "Call for price">>, <<"string", "$1,250,000">> }

\* Responses of one or two records with these prices.
RecordInputs ==
    { [kind |-> "properties", properties |-> <<[r EXCEPT !.price = p]>>] :
         r \in {RawA, RawB}, p \in RawPrices }
    \cup { [kind |-> "properties",
            properties |-> <<[RawB EXCEPT !.price = p], RawA>>] :
              p \in RawPrices }

\* Listings convertToAppProperty is applied to.
RaileyProperties ==
    {getSampleData[i] : i \in 1..Len(getSampleData)} \cup {ParsedA, ParsedB}

\* Arguments of generateDescription: prices at and next to both limits, and
\* lists of no tag up to five tags.
DescriptionAddresses == {"100 Deep Creek Dr, McHenry, MD", "Swanton"}
DescriptionPrices == {0, 300000, 300001, 500000, 500001}
DescriptionTagLists ==
    { <<>>, <<"Luxury Estate">>, <<"Lake Access", "Mountain Views">>,
      <<"Ski Access", "Resort Area", "Lake Access">>,
      <<"Spacious", "Premium Property", "Lake Access", "Mountain Views">>,
      <<"Mountain Views", "Lake Access", "Ski Access", "Resort Area",
        "Spacious">> }

\* What fetchListings() returns to initializeRaileyData(): n listings with
\* ids 1001, 1002, ... (sizes around the 12 of slice(0, 12)), or a throw;
\* and the maps it is run on: the empty one and one holding a created
\* property.
FetchSizes == {0, 1, 11, 12, 13, 14, 30}
fetchedListing(i) ==
    [ParsedA EXCEPT !.id = ToString(1000 + i),
                    !.mlsNumber = ToString(1000 + i),
                    !.address = ToString(i) \o " Lake Shore Dr, Oakland, MD"]
FetchResults ==
    { [threw |-> FALSE, ret |-> [i \in 1..n |-> fetchedListing(i)]] :
         n \in FetchSizes }
    \cup { [threw |-> TRUE, ret |-> <<>>] }
StoredMaps ==
    { <<>>,
      <<[key |-> "uuid-1",
         value |-> [ id |-> "uuid-1", title |-> "Hillside Cottage",
                     address |-> "9 Ridge Ln, Oakland, MD", price |-> 150000,
                     bedrooms |-> 2, bathrooms |-> "1",
                     imageUrl |-> "https://example.com/cottage.jpg",
                     description |-> Null, features |-> <<>>,
                     createdAt |-> StartTime ]]>> }

\* Chat sessions the storage holds when updateChatSession or the validation
\* of POST /api/chat runs: none, one for s1, and one each for s1 and s2.
ChatStores ==
    { <<>>,
      <<[id |-> 1, sessionId |-> "s1",
         messages |-> <<[isUser |-> TRUE, request |-> 1]>>]>>,
      <<[id |-> 1, sessionId |-> "s1",
         messages |-> <<[isUser |-> TRUE, request |-> 1],
                        [isUser |-> FALSE, request |-> 1]>>],
        [id |-> 2, sessionId |-> "s2",
         messages |-> <<[isUser |-> TRUE, request |-> 2]>>]>> }
ChatBodies == {"", "s1", "s2", "s3"} \X {"", "hi"}
NewMessageLists == {<<>>, <<[isUser |-> TRUE, request |-> 3]>>}

\* The helper applications SpecFn starts from.
FnArgs ==
    { [fn |-> "extractFeatures", address |-> a, sqft |-> q, price |-> p] :
         a \in Addresses, q \in Areas, p \in Prices }
    \cup { [fn |-> "generateTitle", address |-> a, features |-> f] :
              a \in Addresses, f \in TagLists }
    \cup { [fn |-> "openaiGenerateTitle", address |-> a, features |-> f] :
              a \in Addresses, f \in TagLists }
    \cup { [fn |-> "parseListingsFromHtml", html |-> page(n, st)] :
              n \in PageSizes, st \in {"bare", "mixed"} }
    \cup { [fn |-> "extractPropertiesWithOpenAI", in |-> in] :
              in \in ScrapeInputs \cup RecordInputs }
    \cup { [fn |-> "convertToAppProperty", raileyProperty |-> rp] :
              rp \in RaileyProperties }
    \cup { [fn |-> "updateChatSession", cs |-> cs, sessionId |-> sid,
             messages |-> ms] :
              cs \in ChatStores, sid \in {"s1", "s2", "s3"},
              ms \in NewMessageLists }
    \cup { [fn |-> "validateChat", cs |-> cs, sessionId |-> b[1],
             message |-> b[2]] :
              cs \in ChatStores, b \in ChatBodies }
    \cup { [fn |-> "initializeRaileyData", m |-> m, fr |-> fr] :
              m \in StoredMaps, fr \in FetchResults }
    \cup { [fn |-> "generateDescription", address |-> a, features |-> f,
             price |-> p] :
              a \in DescriptionAddresses, f \in DescriptionTagLists,
              p \in DescriptionPrices }

InitFn ==
    /\ InitMain
    /\ arg \in FnArgs
    /\ result = NoResult
    /\ InitChat

\* The helper named in arg returns.
Returns(value) ==
    /\ result = NoResult
    /\ result' = [fn |-> arg.fn, value |-> value]
    /\ UNCHANGED <<arg, mainVars, chatVars>>

ApplyExtractFeatures ==
    /\ arg.fn = "extractFeatures"
    /\ Returns(extractFeatures(arg.address, arg.sqft, arg.price))

ApplyGenerateTitle ==
    /\ arg.fn = "generateTitle"
    /\ Returns(generateTitle(arg.address, arg.features))

ApplyOpenaiGenerateTitle ==
    /\ arg.fn = "openaiGenerateTitle"
    /\ Returns(openaiGenerateTitle(arg.address, arg.features))

ApplyParseListingsFromHtml ==
    /\ arg.fn = "parseListingsFromHtml"
    /\ Returns(parseListingsFromHtml(arg.html))

ApplyExtractPropertiesWithOpenAI ==
    /\ arg.fn = "extractPropertiesWithOpenAI"
    /\ Returns(extractPropertiesWithOpenAI(arg.in, now))

ApplyConvertToAppProperty ==
    /\ arg.fn = "convertToAppProperty"
    /\ Returns(convertToAppProperty(arg.raileyProperty, now))

ApplyGenerateDescription ==
    /\ arg.fn = "generateDescription"
    /\ Returns(generateDescription(arg.address, arg.features, arg.price))

ApplyInitializeRaileyData ==
    /\ arg.fn = "initializeRaileyData"
    /\ Returns(initializeRaileyData(arg.m, arg.fr, now))

\* ------------------------------------------------------- POST /api/chat
\* The sessionId of a request body; "" is a body without one.
SessionIds == {"", "s1", "s2"}

\* The message of request r, and the bot's answer to it (id, content,
\* isUser, timestamp).
userMessage(r) == [isUser |-> TRUE, request |-> r]
botMessage(r) == [isUser |-> FALSE, request |-> r]

\* MemStorage.getChatSession (storage.ts:115-117): the first session in the
\* map's order with this sessionId, as <<its id>>; <<>> is undefined.
getChatSession(cs, sessionId) ==
    LET found == {i \in 1..Len(cs) : cs[i].sessionId = sessionId} IN
    IF found = {} THEN <<>> ELSE <<cs[SetMin(found)].id>>

\* session.messages of the session object with this id.
messagesOf(cs, id) ==
    cs[CHOOSE i \in 1..Len(cs) : cs[i].id = id].messages

\* session.messages = messages; this.chatSessions.set(session.id, session)
\* (storage.ts:138-140)
setMessages(cs, id, messages) ==
    [i \in 1..Len(cs) |->
        IF cs[i].id = id THEN [cs[i] EXCEPT !.messages = messages] ELSE cs[i]]

\* routes.ts:206-223: the keyword tests of generateSmartFallbackResponse in
\* their order, each with the reply it returns.
FallbackRules ==
    <<
       [ keywords |-> {"deep creek", "lake", "lakefront"},
         reply |-> "Deep Creek Lake is absolutely beautiful! We have stunning lakefront properties, lake access homes, and lake view properties available. The lake offers year-round recreation - swimming, boating, and fishing in summer, ice fishing in winter. Are you interested in direct lakefront access or would a lake view property work for you?" ],
       [ keywords |-> {"ski", "wisp", "resort", "slope"},
         reply |-> "Wisp Resort is fantastic for skiing and year-round mountain activities! We have ski-in/ski-out condos, mountain homes near the slopes, and properties perfect for vacation rentals. The resort offers skiing, mountain biking, and scenic chairlift rides. Are you looking for a vacation home or investment property near Wisp?" ],
       [ keywords |-> {"bedroom", "bed", "size"},
         reply |-> "Great question about size! Our Deep Creek Lake properties range from cozy 1-bedroom condos perfect for couples' getaways, to spacious 5+ bedroom mountain estates ideal for large families or vacation rentals. What size property would work best for your needs?" ],
       [ keywords |-> {"price", "cost", "budget", "afford"},
         reply |-> "Deep Creek Lake offers properties for various budgets! We have charming cabins starting around $200k, family homes in the $300-500k range, and luxury lakefront estates up to $750k+. Mountain properties often have great value compared to other vacation destinations. What's your target budget range?" ],
       [ keywords |-> {"schedule", "showing", "view", "visit"},
         reply |-> "I'd love to arrange a property showing for you! Deep Creek Lake is even more beautiful in person. Our local agents know every neighborhood and can show you the best properties for your needs. Would you like me to connect you with one of our experienced agents to schedule a visit?" ],
       [ keywords |-> {"vacation", "rental", "investment", "income"},
         reply |-> "Deep Creek Lake has an excellent vacation rental market! Properties near the lake and Wisp Resort stay booked, especially during peak seasons. Many owners cover their mortgage payments with rental income. Are you thinking about a property for personal use that could also generate rental income?" ],
       [ keywords |-> {"area", "location", "neighborhood", "garrett"},
         reply |-> "Garrett County has wonderful diverse areas! Lakefront properties offer direct access to Deep Creek Lake, mountain properties near Wisp Resort provide ski access, and rural areas offer privacy with acreage. Each area has its own character and benefits. What type of setting appeals to you most?" ],
       [ keywords |-> {"thanks", "thank"},
         reply |-> "You're very welcome! I'm here to help you find your perfect Deep Creek Lake property. The area truly offers something special - whether you're drawn to lakefront living, mountain adventures, or peaceful retreats. What else would you like to know about our beautiful area?" ],
       [ keywords |-> {"hello", "hi", "hey"},
         reply |-> "Hello and welcome to Railey Realty! I'm excited to help you explore Deep Creek Lake and Garrett County properties. We specialize in this gorgeous mountain region with its pristine lake, excellent skiing, and peaceful mountain retreats. What type of property experience are you looking for?" ] >>

\* routes.ts:224-227: the reply when no keyword is found.
FallbackDefault ==
    "I'm passionate about helping people discover the magic of Deep Creek Lake and Garrett County! Whether you're dreaming of morning coffee overlooking the lake, afternoon skiing at Wisp Resort, or peaceful evenings in a mountain retreat, we have incredible properties to explore. What draws you to our beautiful area?"

\* generateSmartFallbackResponse (routes.ts:202-228)
generateSmartFallbackResponse(message) ==
    LET lowerMessage == toLowerCase(message)
        hits == {i \in 1..Len(FallbackRules) :
                    \E k \in FallbackRules[i].keywords :
                       includes(lowerMessage, k)}
    IN IF hits = {} THEN FallbackDefault ELSE FallbackRules[SetMin(hits)].reply

\* routes.ts:189: the reply when the completion carries no content, and
\* routes.ts:198: the reply after an error that is not a quota error.
NoContentReply ==
    "I'm here to help you find the perfect Deep Creek Lake property! What type of home interests you?"
ErrorReply ==
    "I'm here to help you discover beautiful Deep Creek Lake and Garrett County properties! What type of home are you looking for?"

\* How the AI call of one request ends: a completion with a text, a
\* completion without content, an Error whose message mentions the quota,
\* or any other error; and the text of a completion.
AiOutcomes == {"content", "noContent", "quota", "error"}
CompletionText == "Happy to help you find a lake home!"

\* generateAIBotResponse whose catch rethrows what is not a quota error.
generateAIBotResponseRethrow(message, ai) ==
    IF ai = "content" THEN [threw |-> FALSE, reply |-> CompletionText]
    ELSE IF ai = "noContent" THEN [threw |-> FALSE, reply |-> NoContentReply]
    ELSE IF ai = "quota"
    THEN [threw |-> FALSE, reply |-> generateSmartFallbackResponse(message)]
    ELSE [threw |-> TRUE, reply |-> ""]

\* generateAIBotResponse (routes.ts:138-200) for a message, the AI call
\* ending as ai: whether it throws, and the reply it returns.
generateAIBotResponse(message, ai) ==
    IF ai = "content" THEN [threw |-> FALSE, reply |-> CompletionText]
    ELSE IF ai = "noContent" THEN [threw |-> FALSE, reply |-> NoContentReply]
    ELSE IF ai = "quota"
    THEN [threw |-> FALSE, reply |-> generateSmartFallbackResponse(message)]
    ELSE [threw |-> FALSE, reply |-> ErrorReply]

\* updateChatSession assigning to the first session of the map when none
\* has the sessionId.
updateChatSessionAnySession(cs, sessionId, messages) ==
    LET found == getChatSession(cs, sessionId) IN
    IF found = <<>>
    THEN [ threw |-> FALSE, error |-> "",
           chatSessions |-> IF Len(cs) = 0 THEN cs
                            ELSE setMessages(cs, cs[1].id, messages) ]
    ELSE [ threw |-> FALSE, error |-> "",
           chatSessions |-> setMessages(cs, found[1], messages) ]

\* MemStorage.updateChatSession (storage.ts:132-142) on the sessions cs:
\* whether it throws, with what message, and the sessions afterwards.
updateChatSession(cs, sessionId, messages) ==
    LET found == getChatSession(cs, sessionId) IN
    IF found = <<>>
    THEN [ threw |-> TRUE, error |-> "Chat session not found",
           chatSessions |-> cs ]
    ELSE [ threw |-> FALSE, error |-> "",
           chatSessions |-> setMessages(cs, found[1], messages) ]

\* routes.ts:90: `!sessionId || !message`; "" is an absent field.
lacksField(sessionId, message) == sessionId = "" \/ message = ""

\* routes.ts:88-92: the status the validation answers with (0: none, the
\* handler goes on) and the sessions afterwards.
validateChat(cs, sessionId, message) ==
    [ status |-> IF lacksField(sessionId, message) THEN 400 ELSE 0,
      chatSessions |-> cs ]

\* The message text of a request body; "" is a body without one.
ChatTexts == {"", "Lake view?"}

\* routes.ts:86-94: request r arrives; without a sessionId or a message it
\* is answered 400, otherwise the handler calls
\* storage.getChatSession(sessionId), whose body runs at the call, and
\* awaits it.
PostChat(r, sessionId, message) ==
    /\ chat[r].pc = "idle"
    /\ chat' = [chat EXCEPT ![r] =
                  IF lacksField(sessionId, message)
                  THEN [@ EXCEPT !.pc = "400"]
                  ELSE [pc |-> "get", sessionId |-> sessionId,
                        message |-> message,
                        session |-> getChatSession(chatSessions, sessionId),
                        updated |-> <<>>, ai |-> "", reply |-> ""]]
    /\ UNCHANGED <<chatSessions, chatIds>>
    /\ UNCHANGED <<mainVars, fnVars>>

\* routes.ts:96-114: the handler resumes with the session it was given. With
\* none it calls storage.createChatSession (storage.ts:119-130), which puts
\* a new session under a new id, and goes on to await the bot's answer;
\* with one it calls storage.updateChatSession with the session's messages
\* and the new one, which awaits getChatSession (storage.ts:133).
AfterGetChatSession(r) ==
    /\ chat[r].pc = "get"
    /\ IF chat[r].session = <<>>
       THEN /\ chatIds' = chatIds + 1
            /\ chatSessions' =
                  Append(chatSessions,
                         [id |-> chatIds + 1, sessionId |-> chat[r].sessionId,
                          messages |-> <<userMessage(r)>>])
            /\ chat' = [chat EXCEPT ![r].pc = "bot",
                                    ![r].session = <<chatIds + 1>>]
       ELSE /\ chat' = [chat EXCEPT
                          ![r].pc = "update",
                          ![r].updated =
                              Append(messagesOf(chatSessions,
                                                chat[r].session[1]),
                                     userMessage(r))]
            /\ UNCHANGED <<chatSessions, chatIds>>
    /\ UNCHANGED <<mainVars, fnVars>>

\* storage.ts:133-141: updateChatSession resumes with the session found for
\* the sessionId, throws when there is none, and otherwise sets its
\* messages; the handler then awaits the bot's answer (routes.ts:116), or,
\* after the final update, sends the session (routes.ts:127).
UpdateChatSession(r) ==
    /\ chat[r].pc \in {"update", "final"}
    /\ LET found == getChatSession(chatSessions, chat[r].sessionId) IN
       IF found = <<>>
       THEN /\ chat' = [chat EXCEPT ![r].pc = "500"]
            /\ UNCHANGED chatSessions
       ELSE /\ chatSessions' =
                  setMessages(chatSessions, found[1], chat[r].updated)
            /\ chat' = [chat EXCEPT
                          ![r].pc = IF chat[r].pc = "update" THEN "bot"
                                    ELSE "done",
                          ![r].session = found]
    /\ UNCHANGED chatIds
    /\ UNCHANGED <<mainVars, fnVars>>

\* routes.ts:116-125: generateAIBotResponse has settled, the AI call having
\* ended as ai; the handler calls storage.updateChatSession with the messages
\* its session has now and the bot's message. Had it thrown, the handler's
\* catch would answer 500 (routes.ts:128-131).
BotResponds(r, ai) ==
    /\ chat[r].pc = "bot"
    /\ LET botResponse == generateAIBotResponse(chat[r].message, ai) IN
       IF botResponse.threw
       THEN chat' = [chat EXCEPT ![r].pc = "500", ![r].ai = ai]
       ELSE chat' = [chat EXCEPT
                       ![r].pc = "final",
                       ![r].ai = ai,
                       ![r].reply = botResponse.reply,
                       ![r].updated =
                           Append(messagesOf(chatSessions, chat[r].session[1]),
                                  botMessage(r))]
    /\ UNCHANGED <<chatSessions, chatIds>>
    /\ UNCHANGED <<mainVars, fnVars>>

InitChatSpec ==
    /\ InitMain
    /\ arg = NoArg
    /\ result = NoResult
    /\ InitChat

NextChat ==
    \/ \E r \in Requests, sessionId \in SessionIds, message \in ChatTexts :
          PostChat(r, sessionId, message)
    \/ \E r \in Requests : AfterGetChatSession(r)
    \/ \E r \in Requests : UpdateChatSession(r)
    \/ \E r \in Requests, ai \in AiOutcomes : BotResponds(r, ai)

SpecChat == InitChatSpec /\ [][NextChat]_vars

\* ------------------------------------- the helpers, applied (continued)
ApplyUpdateChatSession ==
    /\ arg.fn = "updateChatSession"
    /\ Returns(updateChatSession(arg.cs, arg.sessionId, arg.messages))

ApplyValidateChat ==
    /\ arg.fn = "validateChat"
    /\ Returns(validateChat(arg.cs, arg.sessionId, arg.message))

NextFn ==
    \/ ApplyValidateChat
    \/ ApplyUpdateChatSession
    \/ ApplyInitializeRaileyData
    \/ ApplyGenerateDescription
    \/ ApplyConvertToAppProperty
    \/ ApplyExtractFeatures
    \/ ApplyGenerateTitle
    \/ ApplyOpenaiGenerateTitle
    \/ ApplyParseListingsFromHtml
    \/ ApplyExtractPropertiesWithOpenAI

SpecFn == InitFn /\ [][NextFn]_vars

\* ---------------------------------------------------------------- claims
\* The validity window the specification states: 30 minutes, in ms.
ValidityWindow == 30 * 60 * 1000

\* A cached result exists and is younger than the validity window.
fresh == Len(lastFetched) > 0 /\ now - lastFetched[1] < ValidityWindow

\* In this step a fetchListings() call starts waiting on an extraction.
extractionBegins ==
    \E op \in {"init", "fetch", "get"} : inflight'[op] > inflight[op]

\* In this step a fetchListings() call returns, with the given outcome.
fetchReturns(outcomes) ==
    fetchesDone' = fetchesDone + 1 /\ lastFetch'.outcome \in outcomes

\* In this step a scrapeRaileyListings() call ends, with the given outcome.
scrapeEnds(outcomes) ==
    scrapesDone' = scrapesDone + 1 /\ lastScrape'.outcome \in outcomes

\* C1: a fetchListings() call made while a cached result younger than the
\* validity window exists starts no extraction, returns the cached listings
\* in the same step, and leaves listings and lastFetched as they were.
C1_CacheHit ==
    [][ fresh =>
          /\ ~extractionBegins
          /\ fetchReturns({"hit"}) =>
                /\ lastFetch'.ret = listings
                /\ ~lastFetch'.threw
                /\ UNCHANGED <<listings, lastFetched>> ]_vars

\* A call was answered from a non-empty cache.
C1_Witness ==
    /\ lastFetch.outcome = "hit"
    /\ Len(lastFetch.ret) > 0
    /\ lastFetch.ret = listings

C3_FailureKeepsCache ==
    [][ /\ fetchReturns({"error", "empty"}) =>
              UNCHANGED <<listings, lastFetched>>
        /\ scrapeEnds({"threw", "empty"}) =>
              UNCHANGED <<cachedProperties, lastScrapeTime>> ]_vars

\* Both scrapers have had a failed or empty extraction, the OpenAI one over a
\* cache an earlier scrape had filled.
C3_Witness ==
    /\ lastFetch.outcome \in {"error", "empty"}
    /\ lastScrape.outcome \in {"threw", "empty"}
    /\ Len(lastScrape.preCached) > 0
    /\ cachedProperties = lastScrape.preCached
    /\ lastScrapeTime > 0

C5_SuccessReplacesCache ==
    [][ /\ fetchReturns({"ok"}) =>
              /\ Len(lastFetch'.extracted) > 0
              /\ listings' = lastFetch'.extracted
              /\ lastFetched' = <<now>>
              /\ lastFetch'.ret = lastFetch'.extracted
        /\ scrapeEnds({"ok"}) =>
              /\ Len(lastScrape'.extracted) > 0
              /\ cachedProperties' = lastScrape'.extracted
              /\ lastScrapeTime' = now
              /\ ~lastScrape'.threw
              /\ lastScrape'.ret = lastScrape'.extracted ]_vars

\* A stale non-empty cache was replaced by a different list, and a scrape
\* has filled the OpenAI cache.
C5_Witness ==
    /\ lastFetch.outcome = "ok"
    /\ Len(lastFetch.preListings) > 0
    /\ lastFetch.preListings # listings
    /\ lastFetch.ret = listings
    /\ lastScrape.outcome = "ok"
    /\ lastScrape.ret = cachedProperties

\* C6: every fetchListings() call that has returned returned a non-empty
\* list (what was extracted, what was cached, or the fallback set) and
\* raised nothing.
C6_NeverRaises ==
    lastFetch.outcome # "none" =>
        /\ ~lastFetch.threw
        /\ Len(lastFetch.ret) > 0
        /\ \/ lastFetch.ret = getSampleData
           \/ lastFetch.ret = lastFetch.preListings
           \/ lastFetch.outcome = "ok" /\ lastFetch.ret = lastFetch.extracted

\* An extraction raised inside a call, which returned the fallback set.
C6_Witness ==
    /\ lastFetch.outcome = "error"
    /\ ~lastFetch.threw
    /\ lastFetch.ret = getSampleData

\* C7: while every extraction so far has raised, a getProperties() call
\* returns at least 5 properties, each with a non-empty imageUrl.
C7_FiveWithImages ==
    (lastGet.status = "ok" /\ lastGet.allThrew) =>
        /\ Len(lastGet.ret) >= 5
        /\ \A i \in 1..Len(lastGet.ret) : lastGet.ret[i].imageUrl # ""

\* C8: every getProperties() call that has completed returned a non-empty
\* list and raised nothing.
C8_NonEmptyResult ==
    lastGet.status # "none" =>
        /\ lastGet.status = "ok"
        /\ Len(lastGet.ret) > 0

\* A getProperties() call found the store empty, its extraction raised or
\* came back empty, and it still returned properties.
C8_Witness ==
    /\ lastGet.status = "ok"
    /\ lastGet.fetched
    /\ lastFetch.outcome \in {"error", "empty"}
    /\ ~lastGet.allThrew
    /\ Len(lastGet.ret) > 0

\* C9 as stated: the store is empty until the first listing fetch has
\* completed, populated from then on, and never empty again.
C9_EmptyUntilFirstFetch ==
    [][ /\ populations' = 0 => Len(properties') = 0
        /\ populations' > 0 => Len(properties') > 0 ]_vars

\* C9: the store is empty at construction; it becomes non-empty only by a
\* completed listing fetch or by createProperty(); every completed listing
\* fetch leaves it non-empty; once non-empty it is never empty again.
C9_PopulatedForGood ==
    /\ Len(properties) = 0
    /\ [][ /\ (Len(properties) = 0 /\ Len(properties') > 0) =>
                 (populations' = populations + 1 \/ uuids' = uuids + 1)
           /\ populations' > populations => Len(properties') > 0
           /\ Len(properties) > 0 => Len(properties') > 0 ]_vars

\* The store has been populated, repopulated and added to.
C9_Witness ==
    /\ populations >= 2
    /\ uuids >= 1
    /\ Len(properties) > 5

successfulRescrape ==
    populations' = populations + 1 /\ lastFetch'.outcome = "ok"

\* C11: after every successful re-scrape the store's collection consists of
\* exactly the normalized records of that scrape (at most the first 12),
\* earlier records being removed; once the store is populated, a population
\* that is not a successful re-scrape leaves the collection as it was.
C11_ReplaceAll ==
    [][ /\ successfulRescrape =>
              /\ Len(properties') = Min(12, Len(lastFetch'.ret))
              /\ \A i \in 1..Len(properties') :
                    /\ properties'[i].key = lastFetch'.ret[i].id
                    /\ properties'[i].value.id = lastFetch'.ret[i].id
                    /\ properties'[i].value.price = lastFetch'.ret[i].price
        /\ (Len(properties) > 0 /\ populations' = populations + 1
               /\ ~successfulRescrape) =>
              properties' = properties ]_vars

\* A text contains a query, letter case ignored.
containsIgnoringCase(text, query) ==
    includes(toLowerCase(text), toLowerCase(query))

\* Query texts and price bounds (<<>>: none given) the search is asked with.
SearchTexts == {"Lake", "COTTAGE"}
SearchBounds == {<<>>, <<0>>, <<400000>>}

\* C12: for every query text and every given maxPrice >= 0, searchProperties
\* returns exactly the stored properties whose title, address, description
\* or one of whose feature tags contains the query, letter case ignored, and
\* whose price is <= maxPrice; without a maxPrice only the text counts.
C12_SearchCorrect ==
    \A query \in SearchTexts, maxPrice \in SearchBounds :
        searchProperties(properties, query, maxPrice) =
            SelectSeq(mapValues(properties),
                      LAMBDA p :
                          /\ \/ containsIgnoringCase(p.title, query)
                             \/ containsIgnoringCase(p.address, query)
                             \/ (p.description # Null
                                   /\ containsIgnoringCase(p.description, query))
                             \/ \E i \in 1..Len(p.features) :
                                   containsIgnoringCase(p.features[i], query)
                          /\ (maxPrice = <<>> \/ p.price <= maxPrice[1]))

\* In this step an initializeRaileyData() run ends.
populationEnds == populations' = populations + 1

\* C13: the collection changes only in whole: a population step leaves every
\* record of the fetched list (at most the first 12) in the map together
\* with every record that was there, createProperty() adds its one record,
\* nothing else writes the map; and a getProperties() call that returns in a
\* step returns the complete collection as it was before or after that step.
C13_AtomicPopulation ==
    [][ /\ populationEnds =>
              /\ \A i \in 1..Min(12, Len(lastFetch'.ret)) :
                    mapGet(properties', lastFetch'.ret[i].id) # <<>>
              /\ \A j \in 1..Len(properties) :
                    mapGet(properties', properties[j].key) # <<>>
              /\ Cardinality({properties'[j].key : j \in 1..Len(properties')})
                   = Cardinality({properties[j].key : j \in 1..Len(properties)}
                        \cup {lastFetch'.ret[i].id :
                                 i \in 1..Min(12, Len(lastFetch'.ret))})
        /\ properties' # properties =>
              (populationEnds \/ uuids' = uuids + 1)
        /\ lastGet' # lastGet =>
              lastGet'.ret \in {mapValues(properties), mapValues(properties')}
      ]_vars

\* A getProperties() call returned from its own population while another
\* population had written the map, and it returned the whole collection.
C13_Witness ==
    /\ lastGet.status = "ok"
    /\ lastGet.fetched
    /\ populations >= 2
    /\ Len(lastGet.ret) >= 2
    /\ lastGet.ret = mapValues(properties)

\* C14: every property held in the store has a non-empty imageUrl and a
\* price >= 0, whichever path inserted it.
C14_StoreInvariant ==
    \A i \in 1..Len(properties) :
        /\ properties[i].value.imageUrl # ""
        /\ properties[i].value.price >= 0

\* The number of listing patterns in the page that was parsed.
patternsIn(html) == Cardinality({i \in 1..Len(html) : html[i].kind = "listing"})

\* The records are those of the first k listings of the page, in order
\* (the i-th listing of a page carries the MLS number 1000 + i).
firstListings(records, k) ==
    /\ Len(records) = k
    /\ \A i \in 1..k : /\ records[i].id = ToString(1000 + i)
                       /\ records[i].mlsNumber = ToString(1000 + i)

C16_MalformedIsZeroRecords ==
    (/\ result.fn = "extractPropertiesWithOpenAI"
     /\ arg.in.kind \in {"invalidJson", "noProperties"}) =>
        /\ ~result.value.threw
        /\ result.value.properties = <<>>

\* C17: a scrapeRaileyListings() call whose extraction yielded zero records
\* returns the previously cached listings when there are any and a
\* non-empty fallback list otherwise, and raises nothing.
C17_ZeroRecordsDegrade ==
    lastScrape.outcome = "empty" =>
        /\ ~lastScrape.threw
        /\ Len(lastScrape.ret) > 0
        /\ Len(lastScrape.preCached) > 0 =>
              lastScrape.ret = lastScrape.preCached

\* The character U+2013 (en dash), which is not the ASCII hyphen-minus.
EnDash == "<U+2013>"

\* The address text before its first comma.
streetOf(address) ==
    LET k == CHOOSE k \in 0..Len(address) :
                 /\ \A i \in 1..k : SubSeq(address, i, i) # ","
                 /\ (k = Len(address) \/ SubSeq(address, k + 1, k + 1) = ",")
    IN SubSeq(address, 1, k)

hasTag(features, tag) == \E i \in 1..Len(features) : features[i] = tag

\* Some tag contains one of the keywords, letter case ignored.
hasKeyword(features, keywords) ==
    \E i \in 1..Len(features) :
        \E k \in keywords : containsIgnoringCase(features[i], k)

\* The title the priority order over the tags gives, with a dash.
titleByPriority(address, features, dash) ==
    (IF hasTag(features, "Lake Access") THEN "Lake Access Home"
     ELSE IF hasTag(features, "Ski Access") THEN "Ski Resort Property"
     ELSE IF hasTag(features, "Luxury Estate") THEN "Luxury Mountain Estate"
     ELSE "Mountain Home")
    \o " " \o dash \o " " \o streetOf(address)

hasAll(features, tags) == \A t \in tags : hasTag(features, t)
hasNone(features, tags) == \A t \in tags : ~hasTag(features, t)

\* The tags are in the list exactly when the condition holds.
tagsExactlyWhen(features, tags, condition) ==
    IF condition THEN hasAll(features, tags) ELSE hasNone(features, tags)

\* The address holds one of the tokens, letter case ignored.
hasToken(address, tokens) ==
    \E t \in tokens : containsIgnoringCase(address, t)

DefaultTags == {"Mountain Living", "Natural Setting", "Four Season Location"}

\* C19: extractFeatures returns a non-empty tag list holding the lake, ski
\* and garrett tag pairs exactly when the address holds the matching token
\* (letter case ignored), the spacious tags exactly when sqft > 2500, the
\* luxury tag exactly when sqft > 3500, the premium tags exactly when
\* price > 500000, the luxury-estate tag exactly when price > 750000, and
\* the default tags exactly when no other rule matched.
C19_FeatureTagging ==
    result.fn = "extractFeatures" =>
        LET f == result.value
            lake == hasToken(arg.address, {"deep creek", "lake"})
            ski == hasToken(arg.address, {"wisp", "ski"})
            garrett == hasToken(arg.address, {"garrett"})
        IN /\ Len(f) > 0
           /\ tagsExactlyWhen(f, {"Lake Access", "Mountain Views"}, lake)
           /\ tagsExactlyWhen(f, {"Ski Access", "Resort Area"}, ski)
           /\ tagsExactlyWhen(f, {"Garrett County", "Mountain Location"},
                              garrett)
           /\ tagsExactlyWhen(f, {"Spacious Living", "Large Floor Plan"},
                              arg.sqft > 2500)
           /\ tagsExactlyWhen(f, {"Luxury Home"}, arg.sqft > 3500)
           /\ tagsExactlyWhen(f, {"Premium Property", "High-End Finishes"},
                              arg.price > 500000)
           /\ tagsExactlyWhen(f, {"Luxury Estate"}, arg.price > 750000)
           /\ tagsExactlyWhen(f, DefaultTags,
                              ~(lake \/ ski \/ garrett \/ arg.sqft > 2500
                                  \/ arg.price > 500000))

\* An address without a token, at the area and price limits themselves, got
\* the default tags; nothing else did.
C19_Witness ==
    /\ result.fn = "extractFeatures"
    /\ arg.address = "Swanton"
    /\ arg.sqft = 2500
    /\ arg.price = 500000
    /\ result.value =
         <<"Mountain Living", "Natural Setting", "Four Season Location">>

\* Every record that carries an MLS number has it as its id, and no two
\* records of the list share an id.
idsFromMls(records) ==
    /\ \A i \in 1..Len(records) :
          records[i].mlsNumber # Undefined =>
              records[i].id = records[i].mlsNumber
    /\ \A i, j \in 1..Len(records) :
          i # j => records[i].id # records[j].id

\* C20: in both strategies a property produced from an extracted record has
\* the record's MLS number as its id when the record has one, a generated
\* id otherwise, and no two records produced share an id.
C20_IdAssignment ==
    /\ (result.fn = "parseListingsFromHtml" /\ patternsIn(arg.html) >= 1) =>
          idsFromMls(result.value)
    /\ (result.fn = "extractPropertiesWithOpenAI" /\ ~result.value.threw) =>
          idsFromMls(result.value.properties)

\* A price of the response from which no number can be read.
unparsable(price) ==
    \/ price = <<>>
    \/ price[1] = "string" /\ stripNonDigits(price[2]) = ""

\* Every required field of a mapped record holds a value.
populated(p) ==
    /\ p.id # "" /\ p.id # Undefined
    /\ p.title # "" /\ p.title # Undefined
    /\ p.address # "" /\ p.address # Undefined
    /\ p.price \in Nat
    /\ p.bedrooms \in Nat
    /\ p.bathrooms # "" /\ p.bathrooms # Undefined
    /\ p.imageUrl # "" /\ p.imageUrl # Undefined
    /\ p.description # "" /\ p.description # Undefined
    /\ Len(p.features) >= 0

\* C21: mapping a record with a non-negative price and a valid bedroom count
\* to a property raises nothing and fills every required field; a price
\* that is missing or a string without a number becomes 0; a numeric price
\* is kept; convertToAppProperty keeps every field it copies.
C21_NormalizerTotal ==
    /\ (result.fn = "extractPropertiesWithOpenAI"
          /\ arg.in.kind = "properties") =>
          /\ ~result.value.threw
          /\ Len(result.value.properties) = Len(arg.in.properties)
          /\ \A i \in 1..Len(arg.in.properties) :
                LET raw == arg.in.properties[i]
                    p == result.value.properties[i]
                IN /\ populated(p)
                   /\ unparsable(raw.price) => p.price = 0
                   /\ (raw.price # <<>> /\ raw.price[1] = "number") =>
                         p.price = raw.price[2]
    /\ result.fn = "convertToAppProperty" =>
          /\ populated(result.value)
          /\ result.value.id = arg.raileyProperty.id
          /\ result.value.price = arg.raileyProperty.price
          /\ result.value.imageUrl = arg.raileyProperty.imageUrl

\* A record without address, description and features, its price the text
\* "Call for price", was mapped to a property with price 0 and the defaults.
C21_Witness ==
    /\ result.fn = "extractPropertiesWithOpenAI"
    /\ arg.in.kind = "properties"
    /\ Len(arg.in.properties) = 1
    /\ arg.in.properties[1].price = <<"string", "Call for price">>
    /\ arg.in.properties[1].address = Undefined
    /\ ~result.value.threw
    /\ result.value.properties[1].price = 0
    /\ result.value.properties[1].address = "Address not available"

\* In this step a fetchListings() call returns the result of getSampleData():
\* its extraction came back empty, or raised while the cache was empty.
servesSampleData ==
    \/ fetchReturns({"empty"})
    \/ fetchReturns({"error"}) /\ Len(listings) = 0

\* The call that returned before was answered by getSampleData() too.
servedSampleDataBefore ==
    \/ lastFetch.outcome = "empty"
    \/ lastFetch.outcome = "error" /\ Len(lastFetch.preListings) = 0

\* Every field of a sample record is present and holds a value.
sampleFieldsPresent(r) ==
    /\ {"id", "title", "address", "price", "bedrooms", "bathrooms", "sqft",
        "imageUrl", "description", "features", "mlsNumber"} \subseteq DOMAIN r
    /\ r.title # "" /\ r.address # "" /\ r.bathrooms # ""
    /\ r.price > 0 /\ r.bedrooms > 0 /\ r.sqft > 0
    /\ r.imageUrl # "" /\ r.description # "" /\ r.mlsNumber # ""
    /\ Len(r.features) > 0

waitingOnExtraction(f) == f["init"] + f["fetch"] + f["get"]

\* C23: the step in which the extraction of a fetchListings() call or the
\* fetch-and-extract of a scrapeRaileyListings() call ends is the step in
\* which that call returns; no call starts waiting on another attempt in it.
\* A failed extraction of fetchListings() is answered in that step with the
\* cached list or, when there is none, the sample data; a failed scrape
\* raises to its caller in that step.
C23_NoRetry ==
    [][ /\ fetchReturns({"ok", "empty", "error"}) =>
              /\ waitingOnExtraction(inflight') =
                    waitingOnExtraction(inflight) - 1
              /\ ~extractionBegins
              /\ fetchesDone' = fetchesDone + 1
        /\ fetchReturns({"error"}) =>
              /\ ~lastFetch'.threw
              /\ Len(listings) > 0 => lastFetch'.ret = listings
              /\ Len(listings) = 0 => Len(lastFetch'.ret) >= 5
        /\ scrapeEnds({"ok", "empty", "threw"}) =>
              inflight'["scrape"] = inflight["scrape"] - 1
        /\ scrapeEnds({"threw"}) =>
              /\ lastScrape'.threw
              /\ UNCHANGED <<cachedProperties, lastScrapeTime>> ]_vars

\* A scrape has failed and an extraction of fetchListings() has failed, each
\* call has ended, and nothing is waiting.
C23_Witness ==
    /\ scrapesDone = 1 /\ lastScrape.outcome = "threw" /\ lastScrape.threw
    /\ fetchesDone = 1 /\ lastFetch.outcome = "error"
    /\ \A op \in Ops : inflight[op] = 0

\* C24: the cached list and its timestamp change only in a step in which an
\* extraction that yielded listings ends, and that step writes both from
\* that one extraction: the list it extracted and the time it ended. So the
\* cache always pairs the list and the timestamp of the extraction that
\* wrote last, whatever calls were waiting together. The same holds for
\* cachedProperties and lastScrapeTime.
C24_LastWriterWins ==
    [][ /\ fetchReturns({"ok"}) =>
              /\ listings' = lastFetch'.extracted
              /\ lastFetched' = <<lastFetch'.end>>
              /\ lastFetch'.end = now
        /\ (listings' # listings \/ lastFetched' # lastFetched) =>
              fetchReturns({"ok"})
        /\ scrapeEnds({"ok"}) =>
              /\ cachedProperties' = lastScrape'.extracted
              /\ lastScrapeTime' = now
        /\ (cachedProperties' # cachedProperties
               \/ lastScrapeTime' # lastScrapeTime) =>
              scrapeEnds({"ok"}) ]_vars

\* Two fetchListings() calls found the cache stale and waited together (the
\* second cannot have started after the first wrote, less than the validity
\* window ago); both extractions yielded listings, different ones, and the
\* cache holds the list and the time of the one that ended last.
C24_Witness ==
    /\ fetchesDone = 2
    /\ lastFetch.outcome = "ok" /\ lastFetch.prevOutcome = "ok"
    /\ Len(lastFetch.preListings) > 0
    /\ lastFetch.preListings # lastFetch.extracted
    /\ now = StartTime + TickMs
    /\ listings = lastFetch.extracted
    /\ lastFetched = <<now>>
    /\ \A op \in Ops : inflight[op] = 0

\* C25: a scrapeRaileyListings() call whose page fetch is rejected or
\* answered non-2xx, or whose extraction service fails, raises to its
\* caller, and the step leaves cachedProperties, lastScrapeTime and the
\* store's property map as they were, so what getProperties() reads from the
\* map is what it read before.
C25_FailedScrapeChangesNothing ==
    [][ scrapeEnds({"threw"}) =>
          /\ lastScrape'.threw
          /\ cachedProperties' = cachedProperties
          /\ lastScrapeTime' = lastScrapeTime
          /\ properties' = properties
          /\ mapValues(properties') = mapValues(properties)
          /\ UNCHANGED <<listings, lastFetched>> ]_vars

\* A scrape failed after an earlier one had filled the cache, with the store
\* populated: the cache and its time are those of the earlier scrape.
C25_Witness ==
    /\ scrapesDone = 2
    /\ lastScrape.outcome = "threw" /\ lastScrape.threw
    /\ Len(lastScrape.preCached) > 0
    /\ cachedProperties = lastScrape.preCached
    /\ lastScrapeTime > 0
    /\ Len(properties) > 0

\* C26: at process start both caches are empty and have no timestamp; a
\* cache goes from empty to non-empty exactly in the step in which an
\* extraction that yielded listings ends; a non-empty cache never becomes
\* empty and its timestamp is never cleared.
C26_CacheLifecycle ==
    /\ Len(listings) = 0 /\ lastFetched = <<>>
    /\ Len(cachedProperties) = 0 /\ lastScrapeTime = 0
    /\ [][ /\ Len(listings) > 0 =>
                 Len(listings') > 0 /\ lastFetched' # <<>>
           /\ (Len(listings) = 0 /\ Len(listings') > 0) =>
                 fetchReturns({"ok"})
           /\ (Len(listings) = 0 /\ fetchReturns({"ok"})) =>
                 Len(listings') > 0 /\ lastFetched' # <<>>
           /\ Len(cachedProperties) > 0 =>
                 Len(cachedProperties') > 0 /\ lastScrapeTime' > 0
           /\ (Len(cachedProperties) = 0 /\ Len(cachedProperties') > 0) =>
                 scrapeEnds({"ok"})
           /\ (Len(cachedProperties) = 0 /\ scrapeEnds({"ok"})) =>
                 Len(cachedProperties') > 0 /\ lastScrapeTime' > 0 ]_vars

\* With the cache populated, a later extraction came back empty or raised:
\* the cached list and its timestamp are still there.
C26_Witness ==
    /\ lastFetch.outcome \in {"empty", "error"}
    /\ Len(lastFetch.preListings) > 0
    /\ listings = lastFetch.preListings
    /\ lastFetched # <<>>

\* The last successful scrape is younger than the validity window.
scrapedRecently == lastScrapeTime > 0 /\ now - lastScrapeTime < ValidityWindow

\* C27: a scrapeRaileyListings() call always waits on its page fetch, however
\* recent the last successful scrape: the call never ends in the step that
\* starts it, and how it ends is decided by what the fetch and the
\* extraction gave - it raises when either failed, and it returns and caches
\* the newly extracted properties, with the current time, when there are any.
C27_NoFreshnessCheck ==
    [][ /\ inflight'["scrape"] > inflight["scrape"] =>
              scrapesDone' = scrapesDone
        /\ scrapesDone' # scrapesDone =>
              inflight'["scrape"] = inflight["scrape"] - 1
        /\ (scrapedRecently /\ scrapeEnds({"threw"})) => lastScrape'.threw
        /\ (scrapedRecently /\ scrapeEnds({"ok"})) =>
              /\ lastScrape'.ret = lastScrape'.extracted
              /\ cachedProperties' = lastScrape'.extracted
              /\ lastScrapeTime' = now ]_vars

\* Two scrapes ended at the same moment, the second with other properties
\* than the first had cached: they replaced the cache.
C27_Witness ==
    /\ scrapesDone = 2
    /\ now = StartTime
    /\ lastScrape.outcome = "ok"
    /\ Len(lastScrape.preCached) > 0
    /\ lastScrape.preCached # lastScrape.extracted
    /\ lastScrape.ret = lastScrape.extracted
    /\ cachedProperties = lastScrape.extracted
    /\ lastScrapeTime = now

\* The first tags of a list, three at most, each in lower case, in their
\* order, with ", " between them.
RECURSIVE listedTags(_, _)
listedTags(features, n) ==
    IF n = 0 \/ Len(features) = 0 THEN ""
    ELSE IF n = 1 \/ Len(features) = 1 THEN toLowerCase(Head(features))
    ELSE toLowerCase(Head(features)) \o ", "
            \o listedTags(Tail(features), n - 1)

\* The adjective after "Beautiful" in a description.
adjectiveOf(description) ==
    { a \in {"luxury", "premium", "comfortable"} :
         SubSeq(description, 1, Len("Beautiful " \o a \o " home"))
            = "Beautiful " \o a \o " home" }

\* C28: the description generateDescription returns has the adjective luxury
\* exactly for a price above 500000, premium exactly for a price above
\* 300000 and up to 500000, comfortable for any other price, and what it
\* says the property offers is the first three tags at most, in their order,
\* in lower case, joined by a comma and a blank.
C28_DescriptionSynthesis ==
    result.fn = "generateDescription" =>
        /\ adjectiveOf(result.value) =
              IF arg.price > 500000 THEN {"luxury"}
              ELSE IF 300000 < arg.price /\ arg.price <= 500000
              THEN {"premium"} ELSE {"comfortable"}
        /\ includes(result.value,
                    ". This property offers " \o listedTags(arg.features, 3)
                       \o " and is perfect for ")

\* A description was made for a price of exactly 500000 and four tags: it
\* says premium and lists three of them.
C28_Witness ==
    /\ result.fn = "generateDescription"
    /\ arg.price = 500000
    /\ Len(arg.features) = 4
    /\ adjectiveOf(result.value) = {"premium"}
    /\ includes(result.value,
                "offers spacious, premium property, lake access and is")

\* Every request has been answered or has not arrived.
chatQuiet == \A r \in Requests : chat[r].pc \in {"idle", "400", "500", "done"}

\* C29: the storage never holds two chat sessions with the same sessionId,
\* and once every request has been answered, the session getChatSession
\* gives for a sessionId holds the message of every request made with it.
C29_OneSessionPerSessionId ==
    /\ \A i, j \in 1..Len(chatSessions) :
          chatSessions[i].sessionId = chatSessions[j].sessionId => i = j
    /\ chatQuiet =>
          \A r \in Requests :
             chat[r].pc = "done" =>
                LET found == getChatSession(chatSessions, chat[r].sessionId)
                    messages == messagesOf(chatSessions, found[1])
                IN /\ found # <<>>
                   /\ \E k \in 1..Len(messages) : messages[k] = userMessage(r)

\* Each scraper has its timestamp set exactly when its cached list is
\* non-empty.
stampIffList ==
    /\ lastFetched # <<>> <=> Len(listings) > 0
    /\ lastScrapeTime > 0 <=> Len(cachedProperties) > 0

\* C30: in every reachable state, lastFetched is set exactly when listings
\* is non-empty and lastScrapeTime is above 0 exactly when cachedProperties
\* is non-empty; a step that answers a call with the sample data leaves the
\* cached list and the timestamp as they were, and the cached list is not
\* the sample data.
C30_TimestampIffList ==
    /\ [](stampIffList)
    /\ [][ servesSampleData =>
              /\ lastFetched' = lastFetched
              /\ listings' = listings
              /\ listings' # lastFetch'.ret ]_vars

\* The sample data has just answered a call, RaileyScraper's cache is empty
\* without a timestamp, and OpenAIScraper's holds properties with one.
C30_Witness ==
    /\ lastFetch.outcome \in {"empty", "error"}
    /\ Len(lastFetch.preListings) = 0
    /\ Len(lastFetch.ret) >= 5
    /\ listings = <<>> /\ lastFetched = <<>>
    /\ Len(cachedProperties) > 0 /\ lastScrapeTime > 0

\* The keys of a map, and the ids a population stores from a fetched list.
keysOf(m) == {m[j].key : j \in 1..Len(m)}
populatedIds(ret) == {ret[i].id : i \in 1..Min(12, Len(ret))}

C32_FirstTwelveOnly ==
    (result.fn = "initializeRaileyData" /\ ~arg.fr.threw) =>
        LET ret == arg.fr.ret
            m == result.value
            n == Min(12, Len(ret))
        IN /\ Len(m) = Len(arg.m) + n
           /\ \A j \in 1..Len(arg.m) : m[j] = arg.m[j]
           /\ \A i \in 1..n :
                 /\ m[Len(arg.m) + i].key = ret[i].id
                 /\ m[Len(arg.m) + i].value.id = ret[i].id
                 /\ m[Len(arg.m) + i].value.address = ret[i].address
           /\ \A i \in 13..Len(ret) :
                 /\ mapGet(m, ret[i].id) = <<>>
                 /\ \A j \in 1..Len(m) : mapValues(m)[j].id # ret[i].id
                 /\ LET found == searchProperties(m, "lake", <<>>) IN
                    \A j \in 1..Len(found) : found[j].id # ret[i].id

\* fetchListings() returned 13 listings to a population of the empty map:
\* the map holds 12, and the id of the thirteenth is not among its keys.
C32_Witness ==
    /\ result.fn = "initializeRaileyData"
    /\ Len(arg.fr.ret) = 13
    /\ arg.m = <<>>
    /\ Len(result.value) = 12
    /\ result.value[12].key = "1012"
    /\ mapGet(result.value, "1013") = <<>>

\* Ids getProperty is asked for: of a sample record, of parsed listings, of
\* created properties, and one no property has.
AskedIds == {"sample-1", "sample-5", "1001", "1002", "uuid-1", "uuid-2",
             "no-such-id"}

\* Every key of the map is the id of the property stored under it, and
\* getProperty(id) gives the one stored property with that id, or undefined
\* when there is none; a search of the empty store gives the empty list.
readsCorrect ==
    /\ \A i \in 1..Len(properties) : properties[i].key = properties[i].value.id
    /\ \A id \in AskedIds :
          LET stored == {i \in 1..Len(properties) : properties[i].value.id = id}
          IN IF stored = {} THEN mapGet(properties, id) = <<>>
             ELSE /\ Cardinality(stored) = 1
                  /\ \A i \in stored :
                        mapGet(properties, id) = <<properties[i].value>>
    /\ Len(properties) = 0 =>
          \A query \in SearchTexts, maxPrice \in SearchBounds :
             searchProperties(properties, query, maxPrice) = <<>>

\* C33: getProperty(id) returns the stored property with that id or
\* undefined, under keys that equal the ids, and a search of the still-empty
\* store is empty; a step that is neither a state-changing call nor the end
\* of an awaited step - a getProperty() or searchProperties() call - leaves
\* the collection alone, ends no population and starts no extraction.
C33_ReadsAreReadOnly ==
    /\ [](readsCorrect)
    /\ [][ (calls' = calls /\ \A op \in Ops : inflight'[op] >= inflight[op]) =>
              /\ properties' = properties
              /\ populations' = populations
              /\ inflight' = inflight
              /\ fetchesDone' = fetchesDone ]_vars

\* The store holds populated and created properties: getProperty finds a
\* sample record and a created one under their ids and nothing under an id
\* no property has.
C33_Witness ==
    /\ populations >= 1 /\ uuids >= 1
    /\ mapGet(properties, "sample-1") # <<>>
    /\ mapGet(properties, "sample-1")[1].id = "sample-1"
    /\ mapGet(properties, "uuid-1") # <<>>
    /\ mapGet(properties, "uuid-1")[1].id = "uuid-1"
    /\ mapGet(properties, "no-such-id") = <<>>

\* One list is the beginning of another.
isPrefix(a, b) == Len(a) <= Len(b) /\ SubSeq(b, 1, Len(a)) = a

\* The places of a message in a list.
placesOf(messages, message) ==
    {k \in 1..Len(messages) : messages[k] = message}

\* C34: in every step the message list each session held is a prefix of the
\* list it holds afterwards; a request that has been answered has left, in
\* the session getChatSession gives for its sessionId, its user message once
\* and its bot message once, the bot message after the user message; and a
\* request that finds no session for its sessionId creates one.
C34_AppendOnly ==
    [][ /\ \A i \in 1..Len(chatSessions) :
              isPrefix(chatSessions[i].messages, chatSessions'[i].messages)
        /\ \A r \in Requests :
              (chat[r].pc # "done" /\ chat'[r].pc = "done") =>
                 LET found == getChatSession(chatSessions', chat'[r].sessionId)
                     messages == messagesOf(chatSessions', found[1])
                 IN /\ found # <<>>
                    /\ Cardinality(placesOf(messages, userMessage(r))) = 1
                    /\ Cardinality(placesOf(messages, botMessage(r))) = 1
                    /\ \A u \in placesOf(messages, userMessage(r)),
                          b \in placesOf(messages, botMessage(r)) : u < b
        /\ \A r \in Requests :
              (chat[r].pc = "get" /\ chat[r].session = <<>>
                 /\ chat'[r].pc # "get") =>
                 Len(chatSessions') = Len(chatSessions) + 1 ]_vars

\* C35: updateChatSession for a sessionId no stored session has throws
\* 'Chat session not found' and leaves every stored session as it was (for
\* a sessionId that has one it does not throw); a POST /api/chat body
\* without sessionId or without message is answered 400, and only such a
\* body, with the stored sessions as they were.
C35_RejectsWithoutChange ==
    /\ result.fn = "updateChatSession" =>
          LET known == \E i \in 1..Len(arg.cs) :
                          arg.cs[i].sessionId = arg.sessionId
          IN /\ ~known => /\ result.value.threw
                          /\ result.value.error = "Chat session not found"
                          /\ result.value.chatSessions = arg.cs
             /\ known => ~result.value.threw
    /\ result.fn = "validateChat" =>
          /\ result.value.status = 400 <=>
                (arg.sessionId = "" \/ arg.message = "")
          /\ result.value.status = 400 => result.value.chatSessions = arg.cs

\* updateChatSession was called for s3 on a storage holding sessions for s1
\* and s2: it threw and both sessions are as they were.
C35_Witness ==
    /\ result.fn = "updateChatSession"
    /\ arg.sessionId = "s3"
    /\ Len(arg.cs) = 2
    /\ Len(arg.messages) = 1
    /\ result.value.threw
    /\ result.value.chatSessions = arg.cs

\* The reply the keyword fallback gives to the messages of the model.
keywordReply(message) ==
    IF message = "Lake view?" THEN FallbackRules[1].reply ELSE FallbackDefault

\* C36: generateAIBotResponse raises in no case and its reply is never
\* empty - the completion's text, the keyword fallback's reply after a quota
\* error, a fixed message after any other error - so no request that has
\* stored its user message is answered 500, and the update that ends it
\* stores a list ending with its bot message.
C36_BotAlwaysReplies ==
    /\ [](/\ \A i \in 1..Len(FallbackRules) : FallbackRules[i].reply # ""
          /\ FallbackDefault # "" /\ NoContentReply # "" /\ ErrorReply # "")
    /\ [](\A r \in Requests :
             /\ chat[r].pc # "500"
             /\ chat[r].pc \in {"final", "done"} =>
                   /\ chat[r].reply # ""
                   /\ chat[r].ai = "quota" =>
                         chat[r].reply = keywordReply(chat[r].message)
                   /\ chat[r].ai = "error" => chat[r].reply = ErrorReply
                   /\ chat[r].ai = "content" => chat[r].reply = CompletionText)
    /\ [][ \A r \in Requests :
              /\ chat[r].pc = "bot" => chat'[r].pc \in {"bot", "final"}
              /\ (chat[r].pc = "final" /\ chat'[r].pc = "done") =>
                    LET messages == messagesOf(chatSessions',
                                               chat'[r].session[1])
                    IN /\ Len(messages) > 0
                       /\ messages[Len(messages)] = botMessage(r) ]_vars

\* A request whose AI call failed with a quota error and one whose AI call
\* failed otherwise have both been answered, with the keyword reply for
\* "Lake view?" and the fixed message.
C36_Witness ==
    /\ \A r \in Requests : chat[r].pc = "done"
    /\ \E r \in Requests :
          /\ chat[r].ai = "quota" /\ chat[r].message = "Lake view?"
          /\ chat[r].reply = FallbackRules[1].reply
    /\ \E r \in Requests :
          chat[r].ai = "error" /\ chat[r].reply = ErrorReply

====
